---- MODULE Spec2Model ----
(***************************************************************************)
(* Salesforce "remove from permission set" action.                         *)
(*                                                                         *)
(* invoke (src/src/script.mjs) resolves the base address and the           *)
(* authorization header (getBaseURL, getAuthorizationHeader of the         *)
(* bundled utilities), looks the user up by username, looks the            *)
(* permission set assignment up, and deletes it when it exists.  The       *)
(* error handler and the halt handler are the two other entry points.      *)
(*                                                                         *)
(* JavaScript strings are tuples of one-character strings; the literal     *)
(* text of a template (a URL path, an error message) is kept as one        *)
(* element holding the whole literal, so that a search for a caller        *)
(* supplied character or for a status code never matches inside it.        *)
(***************************************************************************)
EXTENDS Integers, Sequences, FiniteSets, TLC

VARIABLES
    pc,           \* per invocation: the await the invocation is suspended at
    params,       \* per invocation: params after template resolution
    context,      \* per invocation: context.secrets and context.environment
    baseUrl,      \* per invocation: const baseUrl
    authHeader,   \* per invocation: const authHeader
    userId,       \* per invocation: const userId
    assignmentId, \* per invocation: const assignmentId
    result,       \* per invocation: the value invoke resolved with
    error,        \* per invocation: the message of the error invoke rejected with
    calls,        \* every fetch issued, in order: the transport's log
    responses,    \* per invocation: the responses its fetches received, in order
    remote,       \* the remote service: its assignment records and how it answers
    startedAfter, \* per invocation: the invocations already terminated when it started
    handler,      \* per invocation: what the error handler produced
    halted        \* per invocation: what the halt handler was given and returned

vars == <<pc, params, context, baseUrl, authHeader, userId, assignmentId,
          result, error, calls, responses, remote, startedAfter, handler, halted>>

----------------------------------------------------------------------------
(* Bounds of the model.                                                    *)

\* the longest records array a query response carries
MaxRecords == 2

\* the invocations of one behaviour (the claims speak of at most two)
Invocations == {1, 2}

----------------------------------------------------------------------------
(* JavaScript values.                                                      *)

\* the value undefined: a missing property
Undefined == <<"undefined">>

\* the value null
Null == <<"null">>

\* truthiness of a string-or-missing value: undefined, null and "" are falsy
Truthy(v) == v # Undefined /\ v # Null /\ v # <<>>

\* template-literal interpolation ${v}: undefined and null print as words
Interpolate(v) ==
    IF v = Undefined THEN <<"u", "n", "d", "e", "f", "i", "n", "e", "d">>
    ELSE IF v = Null THEN <<"n", "u", "l", "l">>
    ELSE v

\* String.prototype.startsWith
StartsWith(s, p) == Len(s) >= Len(p) /\ SubSeq(s, 1, Len(p)) = p

\* String.prototype.endsWith
EndsWith(s, p) == Len(s) >= Len(p) /\ SubSeq(s, Len(s) - Len(p) + 1, Len(s)) = p

\* String.prototype.includes
Includes(s, p) ==
    \E k \in 0..(Len(s) - Len(p)) : SubSeq(s, k + 1, k + Len(p)) = p

\* the decimal digits of a three-digit HTTP status, as ${response.status} prints it
Digits(n) ==
    LET d == <<"0", "1", "2", "3", "4", "5", "6", "7", "8", "9">>
    IN  <<d[(n \div 100) + 1], d[((n \div 10) % 10) + 1], d[(n % 10) + 1]>>

----------------------------------------------------------------------------
(* Character codes and the encodings the code applies.                     *)

\* the printable ASCII characters in code order, from the space (code 32) on;
\* the double quote, the backslash and the backtick are spelled out
Printable ==
    <<
       " ", "!", "dquote", "#", "$", "%", "&", "'", "(", ")", "*", "+",
       ",", "-", ".", "/", "0", "1", "2", "3", "4", "5", "6", "7",
       "8", "9", ":", ";", "<", "=", ">", "?", "@", "A", "B", "C",
       "D", "E", "F", "G", "H", "I", "J", "K", "L", "M", "N", "O",
       "P", "Q", "R", "S", "T", "U", "V", "W", "X", "Y", "Z", "[",
       "backslash", "]", "^", "_", "backtick", "a", "b", "c", "d", "e", "f", "g",
       "h", "i", "j", "k", "l", "m", "n", "o", "p", "q", "r", "s",
       "t", "u", "v", "w", "x", "y", "z", "{", "|", "}", "~"
    >>

\* String.prototype.charCodeAt for a printable ASCII character
CharCode(c) == 31 + (CHOOSE k \in 1..Len(Printable) : Printable[k] = c)

\* the characters encodeURIComponent leaves as they are
UriUnreserved ==
    {
       "A", "B", "C", "D", "E", "F", "G", "H", "I", "J", "K", "L", "M", "N", "O", "P",
       "Q", "R", "S", "T", "U", "V", "W", "X", "Y", "Z", "a", "b", "c", "d", "e", "f",
       "g", "h", "i", "j", "k", "l", "m", "n", "o", "p", "q", "r", "s", "t", "u", "v",
       "w", "x", "y", "z", "0", "1", "2", "3", "4", "5", "6", "7", "8", "9", "-", "_",
       ".", "!", "~", "*", "'", "(", ")"
    }

\* the characters the application/x-www-form-urlencoded serializer leaves as they are
FormUnreserved ==
    {
       "A", "B", "C", "D", "E", "F", "G", "H", "I", "J", "K", "L", "M", "N", "O", "P",
       "Q", "R", "S", "T", "U", "V", "W", "X", "Y", "Z", "a", "b", "c", "d", "e", "f",
       "g", "h", "i", "j", "k", "l", "m", "n", "o", "p", "q", "r", "s", "t", "u", "v",
       "w", "x", "y", "z", "0", "1", "2", "3", "4", "5", "6", "7", "8", "9", "*", "-",
       ".", "_"
    }

\* %XX: the percent escape of one ASCII character
PercentEscape(c) ==
    LET h == <<"0", "1", "2", "3", "4", "5", "6", "7",
               "8", "9", "A", "B", "C", "D", "E", "F">>
        n == CharCode(c)
    IN  <<"%", h[(n \div 16) + 1], h[(n % 16) + 1]>>

RECURSIVE EncodeURIComponentChars(_)
EncodeURIComponentChars(s) ==
    IF s = <<>> THEN <<>>
    ELSE (IF Head(s) \in UriUnreserved THEN <<Head(s)>> ELSE PercentEscape(Head(s)))
         \o EncodeURIComponentChars(Tail(s))

\* encodeURIComponent(v): the argument is converted to a string first
EncodeURIComponent(v) == EncodeURIComponentChars(Interpolate(v))

RECURSIVE FormEncode(_)
\* the form-urlencoded byte serializer URLSearchParams.toString applies to
\* each name and each value: a space becomes "+"
FormEncode(s) ==
    IF s = <<>> THEN <<>>
    ELSE (IF Head(s) \in FormUnreserved THEN <<Head(s)>>
          ELSE IF Head(s) = " " THEN <<"+">>
          ELSE PercentEscape(Head(s)))
         \o FormEncode(Tail(s))

\* the base64 alphabet
Base64Alphabet ==
    <<
       "A", "B", "C", "D", "E", "F", "G", "H", "I", "J", "K", "L", "M", "N", "O", "P",
       "Q", "R", "S", "T", "U", "V", "W", "X", "Y", "Z", "a", "b", "c", "d", "e", "f",
       "g", "h", "i", "j", "k", "l", "m", "n", "o", "p", "q", "r", "s", "t", "u", "v",
       "w", "x", "y", "z", "0", "1", "2", "3", "4", "5", "6", "7", "8", "9", "+", "/"
    >>

RECURSIVE Btoa(_)
\* btoa(s): base64 of the character codes of s, three bytes to four characters
Btoa(s) ==
    LET A(n) == Base64Alphabet[n + 1]
        a == CharCode(s[1])
        b == CharCode(s[2])
        c == CharCode(s[3])
    IN  IF Len(s) = 0 THEN <<>>
        ELSE IF Len(s) = 1 THEN
            <<A(a \div 4), A((a % 4) * 16), "=", "=">>
        ELSE IF Len(s) = 2 THEN
            <<A(a \div 4), A((a % 4) * 16 + (b \div 16)), A((b % 16) * 4), "=">>
        ELSE
            <<A(a \div 4), A((a % 4) * 16 + (b \div 16)),
              A((b % 16) * 4 + (c \div 64)), A(c % 64)>>
            \o Btoa(SubSeq(s, 4, Len(s)))

----------------------------------------------------------------------------
(* The bundled utilities: base address and authorization header.           *)

\* 'Bearer ' and 'Basic ', the scheme prefixes
BearerPrefix == <<"B", "e", "a", "r", "e", "r", " ">>

BasicPrefix == <<"B", "a", "s", "i", "c", " ">>

\* the messages of the errors the utilities throw
NoURLMessage ==
    <<"No URL specified. Provide address parameter or ADDRESS environment variable">>

NoAuthMessage ==
    <<"No authentication configured. Provide one of: BEARER_AUTH_TOKEN, BASIC_USERNAME/BASIC_PASSWORD, OAUTH2_AUTHORIZATION_CODE_ACCESS_TOKEN, or OAUTH2_CLIENT_CREDENTIALS_*">>

ClientCredentialsEnvMessage ==
    <<"OAuth2 Client Credentials flow requires TOKEN_URL and CLIENT_ID in env">>

ClientCredentialsConfigMessage ==
    <<"OAuth2 Client Credentials flow requires tokenUrl, clientId, and clientSecret">>

NoAccessTokenMessage == <<"No access_token in OAuth2 response">>

\* what a synchronous stretch of code ends with: a returned value, a thrown
\* error, or a fetch it awaits
Return(v) == [kind |-> "return", value |-> v]

Throw(m) == [kind |-> "throw", value |-> m]

Fetch(req) == [kind |-> "fetch", value |-> req]

\* a faulty variant of GetBaseURL: a missing address is not rejected
GetBaseURLUnchecked(p, ctx) ==
    LET address == IF Truthy(p.address) THEN p.address ELSE ctx.environment.ADDRESS
    IN  IF EndsWith(address, <<"/">>)
        THEN Return(SubSeq(address, 1, Len(address) - 1))
        ELSE Return(address)

\* a faulty variant of GetBaseURL: the environment's address comes first
GetBaseURLEnvironmentFirst(p, ctx) ==
    LET address == IF Truthy(ctx.environment.ADDRESS)
                   THEN ctx.environment.ADDRESS ELSE p.address
    IN  IF ~Truthy(address) THEN Throw(NoURLMessage)
        ELSE IF EndsWith(address, <<"/">>)
             THEN Return(SubSeq(address, 1, Len(address) - 1))
             ELSE Return(address)

\* a faulty variant of GetBaseURL: two trailing slashes are both removed
GetBaseURLStripsTwo(p, ctx) ==
    LET address == IF Truthy(p.address) THEN p.address ELSE ctx.environment.ADDRESS
    IN  IF ~Truthy(address) THEN Throw(NoURLMessage)
        ELSE IF EndsWith(address, <<"/", "/">>)
             THEN Return(SubSeq(address, 1, Len(address) - 2))
             ELSE IF EndsWith(address, <<"/">>)
                  THEN Return(SubSeq(address, 1, Len(address) - 1))
                  ELSE Return(address)

\* getBaseURL(params, context)
GetBaseURL(p, ctx) ==
    LET address == IF Truthy(p.address) THEN p.address ELSE ctx.environment.ADDRESS
    IN  IF ~Truthy(address) THEN Throw(NoURLMessage)
        ELSE IF EndsWith(address, <<"/">>)
             THEN Return(SubSeq(address, 1, Len(address) - 1))
             ELSE Return(address)

\* a faulty variant of FormatBearer: the prefix is always prepended
FormatBearerAlways(token) == BearerPrefix \o token

\* token.startsWith('Bearer ') ? token : `Bearer ${token}`
FormatBearer(token) ==
    IF StartsWith(token, BearerPrefix) THEN token ELSE BearerPrefix \o token

\* a faulty variant of GetClientCredentialsToken: the Basic header is sent
\* whatever the auth style
GetClientCredentialsTokenBoth(config) ==
    IF ~Truthy(config.tokenUrl) \/ ~Truthy(config.clientId) \/ ~Truthy(config.clientSecret)
    THEN Throw(ClientCredentialsConfigMessage)
    ELSE
        LET inParams == config.authStyle = <<"I", "n", "P", "a", "r", "a", "m", "s">>
            body ==
                <<"grant_type=client_credentials">>
                \o (IF Truthy(config.scope)
                    THEN <<"&scope=">> \o FormEncode(config.scope) ELSE <<>>)
                \o (IF Truthy(config.audience)
                    THEN <<"&audience=">> \o FormEncode(config.audience) ELSE <<>>)
                \o (IF inParams
                    THEN <<"&client_id=">> \o FormEncode(config.clientId)
                         \o <<"&client_secret=">> \o FormEncode(config.clientSecret)
                    ELSE <<>>)
            authorization ==
                BasicPrefix \o Btoa(config.clientId \o <<":">> \o config.clientSecret)
        IN  Fetch([method |-> "POST",
                   url |-> config.tokenUrl,
                   headers |-> [Authorization |-> authorization,
                                Accept |-> <<"application/json">>,
                                ContentType |-> <<"application/x-www-form-urlencoded">>,
                                UserAgent |-> <<"SGNL-CAEP-Hub/2.0">>],
                   body |-> body])

\* getClientCredentialsToken(config), up to its fetch of the token endpoint
GetClientCredentialsToken(config) ==
    IF ~Truthy(config.tokenUrl) \/ ~Truthy(config.clientId) \/ ~Truthy(config.clientSecret)
    THEN Throw(ClientCredentialsConfigMessage)
    ELSE
        LET inParams == config.authStyle = <<"I", "n", "P", "a", "r", "a", "m", "s">>
            body ==
                <<"grant_type=client_credentials">>
                \o (IF Truthy(config.scope)
                    THEN <<"&scope=">> \o FormEncode(config.scope) ELSE <<>>)
                \o (IF Truthy(config.audience)
                    THEN <<"&audience=">> \o FormEncode(config.audience) ELSE <<>>)
                \o (IF inParams
                    THEN <<"&client_id=">> \o FormEncode(config.clientId)
                         \o <<"&client_secret=">> \o FormEncode(config.clientSecret)
                    ELSE <<>>)
            authorization ==
                IF inParams THEN Undefined
                ELSE BasicPrefix \o Btoa(config.clientId \o <<":">> \o config.clientSecret)
        IN  Fetch([method |-> "POST",
                   url |-> config.tokenUrl,
                   headers |-> [Authorization |-> authorization,
                                Accept |-> <<"application/json">>,
                                ContentType |-> <<"application/x-www-form-urlencoded">>,
                                UserAgent |-> <<"SGNL-CAEP-Hub/2.0">>],
                   body |-> body])

\* a faulty variant of GetAuthorizationHeader: Basic is checked before Bearer
GetAuthorizationHeaderBasicFirst(ctx) ==
    LET env == ctx.environment
        secrets == ctx.secrets
    IN  IF Truthy(secrets.BASIC_PASSWORD) /\ Truthy(secrets.BASIC_USERNAME)
        THEN Return(BasicPrefix
                    \o Btoa(secrets.BASIC_USERNAME \o <<":">> \o secrets.BASIC_PASSWORD))
        ELSE IF Truthy(secrets.BEARER_AUTH_TOKEN)
        THEN Return(FormatBearer(secrets.BEARER_AUTH_TOKEN))
        ELSE IF Truthy(secrets.OAUTH2_AUTHORIZATION_CODE_ACCESS_TOKEN)
        THEN Return(FormatBearer(secrets.OAUTH2_AUTHORIZATION_CODE_ACCESS_TOKEN))
        ELSE IF Truthy(secrets.OAUTH2_CLIENT_CREDENTIALS_CLIENT_SECRET)
        THEN IF ~Truthy(env.OAUTH2_CLIENT_CREDENTIALS_TOKEN_URL)
                \/ ~Truthy(env.OAUTH2_CLIENT_CREDENTIALS_CLIENT_ID)
             THEN Throw(ClientCredentialsEnvMessage)
             ELSE GetClientCredentialsToken(
                    [tokenUrl |-> env.OAUTH2_CLIENT_CREDENTIALS_TOKEN_URL,
                     clientId |-> env.OAUTH2_CLIENT_CREDENTIALS_CLIENT_ID,
                     clientSecret |-> secrets.OAUTH2_CLIENT_CREDENTIALS_CLIENT_SECRET,
                     scope |-> env.OAUTH2_CLIENT_CREDENTIALS_SCOPE,
                     audience |-> env.OAUTH2_CLIENT_CREDENTIALS_AUDIENCE,
                     authStyle |-> env.OAUTH2_CLIENT_CREDENTIALS_AUTH_STYLE])
        ELSE Throw(NoAuthMessage)

\* a faulty variant of GetAuthorizationHeader: with nothing configured it returns
\* a header without a token
GetAuthorizationHeaderAnonymous(ctx) ==
    LET env == ctx.environment
        secrets == ctx.secrets
    IN  IF Truthy(secrets.BEARER_AUTH_TOKEN)
        THEN Return(FormatBearer(secrets.BEARER_AUTH_TOKEN))
        ELSE IF Truthy(secrets.BASIC_PASSWORD) /\ Truthy(secrets.BASIC_USERNAME)
        THEN Return(BasicPrefix
                    \o Btoa(secrets.BASIC_USERNAME \o <<":">> \o secrets.BASIC_PASSWORD))
        ELSE IF Truthy(secrets.OAUTH2_AUTHORIZATION_CODE_ACCESS_TOKEN)
        THEN Return(FormatBearer(secrets.OAUTH2_AUTHORIZATION_CODE_ACCESS_TOKEN))
        ELSE IF Truthy(secrets.OAUTH2_CLIENT_CREDENTIALS_CLIENT_SECRET)
        THEN IF ~Truthy(env.OAUTH2_CLIENT_CREDENTIALS_TOKEN_URL)
                \/ ~Truthy(env.OAUTH2_CLIENT_CREDENTIALS_CLIENT_ID)
             THEN Throw(ClientCredentialsEnvMessage)
             ELSE GetClientCredentialsToken(
                    [tokenUrl |-> env.OAUTH2_CLIENT_CREDENTIALS_TOKEN_URL,
                     clientId |-> env.OAUTH2_CLIENT_CREDENTIALS_CLIENT_ID,
                     clientSecret |-> secrets.OAUTH2_CLIENT_CREDENTIALS_CLIENT_SECRET,
                     scope |-> env.OAUTH2_CLIENT_CREDENTIALS_SCOPE,
                     audience |-> env.OAUTH2_CLIENT_CREDENTIALS_AUDIENCE,
                     authStyle |-> env.OAUTH2_CLIENT_CREDENTIALS_AUTH_STYLE])
        ELSE Return(BearerPrefix \o Interpolate(secrets.BEARER_AUTH_TOKEN))

\* a faulty variant of GetAuthorizationHeader: a client secret without its
\* token URL or client id is reported as no authentication at all
GetAuthorizationHeaderUniform(ctx) ==
    LET env == ctx.environment
        secrets == ctx.secrets
    IN  IF Truthy(secrets.BEARER_AUTH_TOKEN)
        THEN Return(FormatBearer(secrets.BEARER_AUTH_TOKEN))
        ELSE IF Truthy(secrets.BASIC_PASSWORD) /\ Truthy(secrets.BASIC_USERNAME)
        THEN Return(BasicPrefix
                    \o Btoa(secrets.BASIC_USERNAME \o <<":">> \o secrets.BASIC_PASSWORD))
        ELSE IF Truthy(secrets.OAUTH2_AUTHORIZATION_CODE_ACCESS_TOKEN)
        THEN Return(FormatBearer(secrets.OAUTH2_AUTHORIZATION_CODE_ACCESS_TOKEN))
        ELSE IF Truthy(secrets.OAUTH2_CLIENT_CREDENTIALS_CLIENT_SECRET)
        THEN IF ~Truthy(env.OAUTH2_CLIENT_CREDENTIALS_TOKEN_URL)
                \/ ~Truthy(env.OAUTH2_CLIENT_CREDENTIALS_CLIENT_ID)
             THEN Throw(NoAuthMessage)
             ELSE GetClientCredentialsToken(
                    [tokenUrl |-> env.OAUTH2_CLIENT_CREDENTIALS_TOKEN_URL,
                     clientId |-> env.OAUTH2_CLIENT_CREDENTIALS_CLIENT_ID,
                     clientSecret |-> secrets.OAUTH2_CLIENT_CREDENTIALS_CLIENT_SECRET,
                     scope |-> env.OAUTH2_CLIENT_CREDENTIALS_SCOPE,
                     audience |-> env.OAUTH2_CLIENT_CREDENTIALS_AUDIENCE,
                     authStyle |-> env.OAUTH2_CLIENT_CREDENTIALS_AUTH_STYLE])
        ELSE Throw(NoAuthMessage)

\* a faulty variant of GetAuthorizationHeader: a complete client-credentials
\* configuration is used before any stored token
GetAuthorizationHeaderClientFirst(ctx) ==
    LET env == ctx.environment
        secrets == ctx.secrets
    IN  IF /\ Truthy(secrets.OAUTH2_CLIENT_CREDENTIALS_CLIENT_SECRET)
           /\ Truthy(env.OAUTH2_CLIENT_CREDENTIALS_TOKEN_URL)
           /\ Truthy(env.OAUTH2_CLIENT_CREDENTIALS_CLIENT_ID)
        THEN GetClientCredentialsToken(
                    [tokenUrl |-> env.OAUTH2_CLIENT_CREDENTIALS_TOKEN_URL,
                     clientId |-> env.OAUTH2_CLIENT_CREDENTIALS_CLIENT_ID,
                     clientSecret |-> secrets.OAUTH2_CLIENT_CREDENTIALS_CLIENT_SECRET,
                     scope |-> env.OAUTH2_CLIENT_CREDENTIALS_SCOPE,
                     audience |-> env.OAUTH2_CLIENT_CREDENTIALS_AUDIENCE,
                     authStyle |-> env.OAUTH2_CLIENT_CREDENTIALS_AUTH_STYLE])
        ELSE IF Truthy(secrets.BEARER_AUTH_TOKEN)
        THEN Return(FormatBearer(secrets.BEARER_AUTH_TOKEN))
        ELSE IF Truthy(secrets.BASIC_PASSWORD) /\ Truthy(secrets.BASIC_USERNAME)
        THEN Return(BasicPrefix
                    \o Btoa(secrets.BASIC_USERNAME \o <<":">> \o secrets.BASIC_PASSWORD))
        ELSE IF Truthy(secrets.OAUTH2_AUTHORIZATION_CODE_ACCESS_TOKEN)
        THEN Return(FormatBearer(secrets.OAUTH2_AUTHORIZATION_CODE_ACCESS_TOKEN))
        ELSE IF Truthy(secrets.OAUTH2_CLIENT_CREDENTIALS_CLIENT_SECRET)
        THEN Throw(ClientCredentialsEnvMessage)
        ELSE Throw(NoAuthMessage)

\* getAuthorizationHeader(context), up to its first await
GetAuthorizationHeader(ctx) ==
    LET env == ctx.environment
        secrets == ctx.secrets
    IN  IF Truthy(secrets.BEARER_AUTH_TOKEN)
        THEN Return(FormatBearer(secrets.BEARER_AUTH_TOKEN))
        ELSE IF Truthy(secrets.BASIC_PASSWORD) /\ Truthy(secrets.BASIC_USERNAME)
        THEN Return(BasicPrefix
                    \o Btoa(secrets.BASIC_USERNAME \o <<":">> \o secrets.BASIC_PASSWORD))
        ELSE IF Truthy(secrets.OAUTH2_AUTHORIZATION_CODE_ACCESS_TOKEN)
        THEN Return(FormatBearer(secrets.OAUTH2_AUTHORIZATION_CODE_ACCESS_TOKEN))
        ELSE IF Truthy(secrets.OAUTH2_CLIENT_CREDENTIALS_CLIENT_SECRET)
        THEN IF ~Truthy(env.OAUTH2_CLIENT_CREDENTIALS_TOKEN_URL)
                \/ ~Truthy(env.OAUTH2_CLIENT_CREDENTIALS_CLIENT_ID)
             THEN Throw(ClientCredentialsEnvMessage)
             ELSE GetClientCredentialsToken(
                    [tokenUrl |-> env.OAUTH2_CLIENT_CREDENTIALS_TOKEN_URL,
                     clientId |-> env.OAUTH2_CLIENT_CREDENTIALS_CLIENT_ID,
                     clientSecret |-> secrets.OAUTH2_CLIENT_CREDENTIALS_CLIENT_SECRET,
                     scope |-> env.OAUTH2_CLIENT_CREDENTIALS_SCOPE,
                     audience |-> env.OAUTH2_CLIENT_CREDENTIALS_AUDIENCE,
                     authStyle |-> env.OAUTH2_CLIENT_CREDENTIALS_AUTH_STYLE])
        ELSE Throw(NoAuthMessage)

\* HTTP: response.ok
Ok(resp) == resp.status >= 200 /\ resp.status <= 299

\* getClientCredentialsToken and getAuthorizationHeader, from the token
\* endpoint's response on.  A failed response's body is read as JSON and, when
\* that fails, as text; a transport that has consumed the body by then rejects
\* the second read.
TokenResponseOutcome(resp) ==
    IF ~Ok(resp) THEN
        IF resp.body.kind = "json"
        THEN Throw(<<"OAuth2 token request failed: ">> \o Digits(resp.status) \o <<" ">>
                   \o resp.statusText \o <<" - ">> \o resp.body.text)
        ELSE IF resp.body.kind = "text"
        THEN Throw(<<"OAuth2 token request failed: ">> \o Digits(resp.status) \o <<" ">>
                   \o resp.statusText \o <<" - ">> \o resp.body.text)
        ELSE Throw(<<"TypeError: Body is unusable">>)
    ELSE IF resp.body.kind # "json" THEN Throw(<<"SyntaxError: Unexpected token">>)
    ELSE IF ~Truthy(resp.body.access_token) THEN Throw(NoAccessTokenMessage)
    ELSE Return(BearerPrefix \o resp.body.access_token)

----------------------------------------------------------------------------
(* The three requests of src/src/script.mjs.                               *)

\* the headers object every request of invoke carries
RequestHeaders(header) ==
    [Authorization |-> header,
     Accept |-> <<"application/json">>,
     ContentType |-> Undefined,
     UserAgent |-> Undefined]

\* findUserByUsername: the username is passed through encodeURIComponent
FindUserByUsername(username, base, header) ==
    [method |-> "GET",
     url |-> base \o <<"/services/data/v61.0/query?q=">>
             \o <<"SELECT+Id+FROM+User+WHERE+Username=", "'">>
             \o EncodeURIComponent(username)
             \o <<"'", "+ORDER+BY+Id+ASC">>,
     headers |-> RequestHeaders(header),
     body |-> Undefined]

\* a faulty variant of FindPermissionSetAssignment: the query asks for the
\* assignments of the user to any permission set
FindPermissionSetAssignmentAnySet(user, permissionSetId, base, header) ==
    [method |-> "GET",
     url |-> base \o <<"/services/data/v61.0/query?q=">>
             \o <<"SELECT+Id+FROM+PermissionSetAssignment+WHERE+AssigneeId=", "'">>
             \o Interpolate(user)
             \o <<"'">>,
     headers |-> RequestHeaders(header),
     body |-> Undefined]

\* findPermissionSetAssignment: both ids are interpolated as they are
FindPermissionSetAssignment(user, permissionSetId, base, header) ==
    [method |-> "GET",
     url |-> base \o <<"/services/data/v61.0/query?q=">>
             \o <<"SELECT+Id+FROM+PermissionSetAssignment+WHERE+AssigneeId=", "'">>
             \o Interpolate(user)
             \o <<"'", "+AND+PermissionSetId=", "'">>
             \o Interpolate(permissionSetId)
             \o <<"'">>,
     headers |-> RequestHeaders(header),
     body |-> Undefined]

\* deletePermissionSetAssignment
DeletePermissionSetAssignment(assignment, base, header) ==
    [method |-> "DELETE",
     url |-> base \o <<"/services/data/v61.0/sobjects/PermissionSetAssignment/">>
             \o Interpolate(assignment),
     headers |-> RequestHeaders(header),
     body |-> Undefined]

----------------------------------------------------------------------------
(* invoke, one stretch of code per await.                                  *)

\* the value invoke has resolved with: none yet
NoResult ==
    [status |-> "none", username |-> Undefined, userId |-> Undefined,
     permissionSetId |-> Undefined, assignmentId |-> Undefined,
     removed |-> FALSE, address |-> Undefined]

\* data.records is missing or empty
NoRecords(body) == ~body.hasRecords \/ Len(body.records) = 0

\* a faulty variant of FirstId: the last record instead of the first
LastId(body) == body.records[Len(body.records)].Id

\* a faulty variant of FirstId: the second record when there is one
SecondId(body) ==
    IF Len(body.records) > 1 THEN body.records[2].Id ELSE body.records[1].Id

\* data.records[0].Id
FirstId(body) == body.records[1].Id

\* a faulty variant of UserOutcome: the error for no records does not name the user
UserOutcomeUnnamed(p, base, header, resp) ==
    IF ~Ok(resp)
    THEN Throw(<<"Failed to query user: ">> \o Digits(resp.status) \o <<" ">>
               \o resp.statusText)
    ELSE IF resp.body.kind # "json" THEN Throw(<<"SyntaxError: Unexpected token">>)
    ELSE IF NoRecords(resp.body)
    THEN Throw(<<"Failed to query user: ">>)
    ELSE Fetch(FindPermissionSetAssignment(FirstId(resp.body), p.permissionSetId,
                                           base, header))

\* a faulty variant of UserOutcome: the DELETE is issued without the relation
\* lookup
UserOutcomeDeletes(p, base, header, resp) ==
    IF ~Ok(resp)
    THEN Throw(<<"Failed to query user: ">> \o Digits(resp.status) \o <<" ">>
               \o resp.statusText)
    ELSE IF resp.body.kind # "json" THEN Throw(<<"SyntaxError: Unexpected token">>)
    ELSE IF NoRecords(resp.body)
    THEN Throw(<<"User not found: ">> \o Interpolate(p.username))
    ELSE Fetch(DeletePermissionSetAssignment(FirstId(resp.body), base, header))

\* a faulty variant of UserOutcome: the error of a failed query carries no status
UserOutcomeStatusless(p, base, header, resp) ==
    IF ~Ok(resp)
    THEN Throw(<<"Failed to query user: ">>)
    ELSE IF resp.body.kind # "json" THEN Throw(<<"SyntaxError: Unexpected token">>)
    ELSE IF NoRecords(resp.body)
    THEN Throw(<<"User not found: ">> \o Interpolate(p.username))
    ELSE Fetch(FindPermissionSetAssignment(FirstId(resp.body), p.permissionSetId,
                                           base, header))

\* invoke from the response to the user query up to the next await
UserOutcome(p, base, header, resp) ==
    IF ~Ok(resp)
    THEN Throw(<<"Failed to query user: ">> \o Digits(resp.status) \o <<" ">>
               \o resp.statusText)
    ELSE IF resp.body.kind # "json" THEN Throw(<<"SyntaxError: Unexpected token">>)
    ELSE IF NoRecords(resp.body)
    THEN Throw(<<"User not found: ">> \o Interpolate(p.username))
    ELSE Fetch(FindPermissionSetAssignment(FirstId(resp.body), p.permissionSetId,
                                           base, header))

\* a faulty variant of AssignmentOutcome: no assignment is an error
AssignmentOutcomeAbsentThrows(p, base, header, user, resp) ==
    IF ~Ok(resp)
    THEN Throw(<<"Failed to query permission set assignment: ">> \o Digits(resp.status)
               \o <<" ">> \o resp.statusText)
    ELSE IF resp.body.kind # "json" THEN Throw(<<"SyntaxError: Unexpected token">>)
    ELSE IF NoRecords(resp.body)
    THEN Throw(<<"Permission set assignment not found">>)
    ELSE Fetch(DeletePermissionSetAssignment(FirstId(resp.body), base, header))

\* a faulty variant of AssignmentOutcome: no assignment is reported as a removal
AssignmentOutcomeAbsentRemoved(p, base, header, user, resp) ==
    IF ~Ok(resp)
    THEN Throw(<<"Failed to query permission set assignment: ">> \o Digits(resp.status)
               \o <<" ">> \o resp.statusText)
    ELSE IF resp.body.kind # "json" THEN Throw(<<"SyntaxError: Unexpected token">>)
    ELSE IF NoRecords(resp.body)
    THEN Return([status |-> "success", username |-> p.username, userId |-> user,
                 permissionSetId |-> p.permissionSetId, assignmentId |-> Null,
                 removed |-> TRUE, address |-> base])
    ELSE Fetch(DeletePermissionSetAssignment(FirstId(resp.body), base, header))

\* invoke from the response to the assignment query up to the next await or return
AssignmentOutcome(p, base, header, user, resp) ==
    IF ~Ok(resp)
    THEN Throw(<<"Failed to query permission set assignment: ">> \o Digits(resp.status)
               \o <<" ">> \o resp.statusText)
    ELSE IF resp.body.kind # "json" THEN Throw(<<"SyntaxError: Unexpected token">>)
    ELSE IF NoRecords(resp.body)
    THEN Return([status |-> "success", username |-> p.username, userId |-> user,
                 permissionSetId |-> p.permissionSetId, assignmentId |-> Null,
                 removed |-> FALSE, address |-> base])
    ELSE Fetch(DeletePermissionSetAssignment(FirstId(resp.body), base, header))

\* a faulty variant of DeleteOutcome: the address of the params is echoed
DeleteOutcomeParamsAddress(p, base, user, assignment, resp) ==
    IF ~Ok(resp)
    THEN Throw(<<"Failed to delete permission set assignment: ">> \o Digits(resp.status)
               \o <<" ">> \o resp.statusText)
    ELSE Return([status |-> "success", username |-> p.username, userId |-> user,
                 permissionSetId |-> p.permissionSetId, assignmentId |-> assignment,
                 removed |-> TRUE, address |-> p.address])

\* a faulty variant of DeleteOutcome: the answer of the DELETE is not looked at
DeleteOutcomeUnchecked(p, base, user, assignment, resp) ==
    Return([status |-> "success", username |-> p.username, userId |-> user,
            permissionSetId |-> p.permissionSetId, assignmentId |-> assignment,
            removed |-> TRUE, address |-> base])

\* a faulty variant of DeleteOutcome: the user id is kept in one place for all
\* invocations, and the result reports what the first invocation left there
DeleteOutcomeShared(p, base, user, assignment, resp) ==
    IF ~Ok(resp)
    THEN Throw(<<"Failed to delete permission set assignment: ">> \o Digits(resp.status)
               \o <<" ">> \o resp.statusText)
    ELSE Return([status |-> "success", username |-> p.username, userId |-> userId[1],
                 permissionSetId |-> p.permissionSetId, assignmentId |-> assignment,
                 removed |-> TRUE, address |-> base])

\* a faulty variant of DeleteOutcome: a DELETE answered 404 counts as a removal
DeleteOutcomeNotFoundOk(p, base, user, assignment, resp) ==
    IF ~Ok(resp) /\ resp.status # 404
    THEN Throw(<<"Failed to delete permission set assignment: ">> \o Digits(resp.status)
               \o <<" ">> \o resp.statusText)
    ELSE Return([status |-> "success", username |-> p.username, userId |-> user,
                 permissionSetId |-> p.permissionSetId, assignmentId |-> assignment,
                 removed |-> TRUE, address |-> base])

\* invoke from the response to the DELETE to its return
DeleteOutcome(p, base, user, assignment, resp) ==
    IF ~Ok(resp)
    THEN Throw(<<"Failed to delete permission set assignment: ">> \o Digits(resp.status)
               \o <<" ">> \o resp.statusText)
    ELSE Return([status |-> "success", username |-> p.username, userId |-> user,
                 permissionSetId |-> p.permissionSetId, assignmentId |-> assignment,
                 removed |-> TRUE, address |-> base])

\* a faulty variant of ErrorHandlerOutcome: every error is answered with a
\* request to retry
ErrorHandlerOutcomeRetrying(message) == Return(<<"retry_requested">>)

\* the error handler of src/src/script.mjs: it throws the error it is given
ErrorHandlerOutcome(message) == Throw(message)

\* the halt handler has not run
NoHalt ==
    [params |-> [username |-> Undefined, reason |-> Undefined],
     result |-> [status |-> "none", username |-> Undefined, reason |-> Undefined,
                 halted_at |-> Undefined]]

\* a faulty variant of HaltOutcome: the username is echoed as given
HaltOutcomeEcho(p, at) ==
    Return([status |-> "halted", username |-> p.username, reason |-> p.reason,
            halted_at |-> at])

\* the halt handler: username || 'unknown', the reason, the time of the halt
HaltOutcome(p, at) ==
    Return([status |-> "halted",
            username |-> IF Truthy(p.username) THEN p.username ELSE <<"unknown">>,
            reason |-> p.reason,
            halted_at |-> at])

----------------------------------------------------------------------------
(* The transport and the remote service.                                   *)

\* response.statusText of the statuses the model uses
StatusText(n) ==
    CASE n = 200 -> <<"OK">>
      [] n = 204 -> <<"No Content">>
      [] n = 400 -> <<"Bad Request">>
      [] n = 401 -> <<"Unauthorized">>
      [] n = 404 -> <<"Not Found">>
      [] n = 429 -> <<"Too Many Requests">>
      [] OTHER -> <<"Service Unavailable">>

\* the statuses of a failed response
FailureStatuses == {400, 401, 429, 503}

\* a response body: JSON (a query result or a token) or text that is no JSON
JsonBody(records, token) ==
    [kind |-> "json", text |-> <<"{...}">>, access_token |-> token,
     hasRecords |-> TRUE, records |-> records]

\* a JSON body that has no records property
JsonBodyWithoutRecords(token) ==
    [kind |-> "json", text |-> <<"{...}">>, access_token |-> token,
     hasRecords |-> FALSE, records |-> <<>>]

TextBody(kind) ==
    [kind |-> kind, text |-> <<"<html>">>, access_token |-> Undefined,
     hasRecords |-> FALSE, records |-> <<>>]

Response(status, body) ==
    [status |-> status, statusText |-> StatusText(status), body |-> body]

\* the ids a record of a query response may carry
RecordIds == {<<"0", "0", "1">>, <<"0", "0", "2">>}

\* the id the records after the first carry
FurtherRecordId == <<"0", "0", "2">>

\* the records arrays of at most MaxRecords records.  The code reads the length
\* of the array and the Id of its first record only, so the first record's Id
\* is an id, null or missing, and the further records carry one id, which the
\* first record's Id may or may not equal.
RecordLists ==
    {<<>>}
    \cup {<<[Id |-> v]>> \o [k \in 1..n |-> [Id |-> FurtherRecordId]] :
            v \in RecordIds \cup {Null, Undefined},
            n \in 0..(MaxRecords - 1)}

\* every response to a query: a failure, a body that is no JSON, a body without
\* records, or a records array
QueryResponses ==
    {Response(st, TextBody("text")) : st \in FailureStatuses}
    \cup {Response(200, TextBody("text")), Response(200, JsonBodyWithoutRecords(Undefined))}
    \cup {Response(200, JsonBody(r, Undefined)) : r \in RecordLists}

\* every response to a DELETE
DeleteResponses ==
    {Response(st, TextBody("text")) : st \in FailureStatuses \cup {204, 404}}

\* every response of the token endpoint: a token, no token, no JSON, or a failure
\* whose body is JSON, text that can be read again, or text already consumed
TokenResponses ==
    {Response(200, JsonBodyWithoutRecords(tk)) : tk \in {<<"t", "k">>, Undefined}}
    \cup {Response(200, TextBody("text"))}
    \cup {Response(401, b) : b \in {JsonBodyWithoutRecords(Undefined), TextBody("text"),
                                    TextBody("used")}}

\* the users of the remote service
Users == {[Id |-> <<"0", "0", "5">>, Username |-> <<"a", "@", "b">>]}

\* the assignment records the remote service may hold, one per (user, permission set)
Assignments ==
    {[Id |-> <<"0", "P", "A", "1">>, AssigneeId |-> <<"0", "0", "5">>,
      PermissionSetId |-> <<"P", "1">>],
     [Id |-> <<"0", "P", "A", "2">>, AssigneeId |-> <<"0", "0", "5">>,
      PermissionSetId |-> <<"P", "2">>]}

RECURSIVE RecordsOf(_)
\* the records array of a set of ids
RecordsOf(ids) ==
    IF ids = {} THEN <<>>
    ELSE LET x == CHOOSE y \in ids : TRUE
         IN  <<[Id |-> x]>> \o RecordsOf(ids \ {x})

\* the ids the remote service holds that a query asks for
Matching(req, base) ==
    {u.Id : u \in {v \in Users :
        FindUserByUsername(v.Username, base, Undefined).url = req.url}}
    \cup {a.Id : a \in {b \in remote.assignments :
        FindPermissionSetAssignment(b.AssigneeId, b.PermissionSetId, base,
                                    Undefined).url = req.url}}

\* the assignment records a DELETE request names
Deleted(req, base) ==
    {a \in remote.assignments :
        DeletePermissionSetAssignment(a.Id, base, Undefined).url = req.url}

\* the answer of a remote service that answers from its records
FaithfulResponse(req, base) ==
    IF req.method = "GET"
    THEN Response(200, JsonBody(RecordsOf(Matching(req, base)), Undefined))
    ELSE IF Deleted(req, base) # {} THEN Response(204, TextBody("text"))
    ELSE Response(404, TextBody("text"))

\* the responses the transport may deliver to a request of invoke: anything, or,
\* of a remote service that answers from its records, its answer or a 503
ResponsesTo(req, base) ==
    IF remote.faithful
    THEN {FaithfulResponse(req, base), Response(503, TextBody("text"))}
    ELSE IF req.method = "GET" THEN QueryResponses
    ELSE DeleteResponses

\* the remote service after it has answered: an acknowledged DELETE removes the record
RemoteAfter(req, base, resp) ==
    IF req.method = "DELETE" /\ Ok(resp)
    THEN [remote EXCEPT !.assignments = @ \ Deleted(req, base)]
    ELSE remote

\* the last request an invocation issued
LastRequest(i) ==
    LET mine == {k \in 1..Len(calls) : calls[k].inv = i}
    IN  calls[CHOOSE k \in mine : \A m \in mine : m <= k].req

----------------------------------------------------------------------------
(* The actions.                                                            *)

Terminated == {"done", "failed"}

\* the reasons a halt is signalled with, and new Date().toISOString() at the halt
HaltReasons == {Undefined, <<"timeout">>}

HaltTimes == {<<"2024-01-01T00:00:00.000Z">>, <<"2024-01-01T00:00:01.000Z">>}

\* a faulty variant of Reject: the error of a step is caught and replaced
RejectWrapped(i, message) ==
    /\ pc' = [pc EXCEPT ![i] = "failed"]
    /\ error' = [error EXCEPT ![i] = <<"Action failed">>]

\* a faulty variant of Reject: the error of a step leaves invoke waiting
RejectStuck(i, message) ==
    /\ pc' = [pc EXCEPT ![i] = "awaitRetry"]
    /\ error' = [error EXCEPT ![i] = message]

\* invoke rejects with an error
Reject(i, message) ==
    /\ pc' = [pc EXCEPT ![i] = "failed"]
    /\ error' = [error EXCEPT ![i] = message]

\* a faulty variant of Issue: the request is sent, and sent once more
IssueTwice(i, req, at) ==
    /\ calls' = calls \o <<[inv |-> i, req |-> req], [inv |-> i, req |-> req]>>
    /\ pc' = [pc EXCEPT ![i] = at]

\* invoke issues a fetch and suspends
Issue(i, req, at) ==
    /\ calls' = Append(calls, [inv |-> i, req |-> req])
    /\ pc' = [pc EXCEPT ![i] = at]

\* a faulty variant of InvokeStart: the credentials are resolved before the address
InvokeStartAuthFirst(i) ==
    /\ pc[i] = "start"
    /\ startedAfter' = [startedAfter EXCEPT ![i] = {j \in Invocations : pc[j] \in Terminated}]
    /\ LET base == GetBaseURL(params[i], context[i])
           auth == GetAuthorizationHeader(context[i])
       IN  CASE auth.kind = "throw" ->
                  /\ Reject(i, auth.value)
                  /\ UNCHANGED <<baseUrl, authHeader, calls>>
             [] auth.kind = "fetch" ->
                  /\ Issue(i, auth.value, "awaitToken")
                  /\ UNCHANGED <<error, baseUrl, authHeader>>
             [] auth.kind = "return" ->
                  IF base.kind = "throw"
                  THEN /\ Reject(i, base.value)
                       /\ UNCHANGED <<baseUrl, authHeader, calls>>
                  ELSE /\ baseUrl' = [baseUrl EXCEPT ![i] = base.value]
                       /\ authHeader' = [authHeader EXCEPT ![i] = auth.value]
                       /\ pc' = [pc EXCEPT ![i] = "awaitAuth"]
                       /\ UNCHANGED <<error, calls>>
    /\ UNCHANGED <<params, context, userId, assignmentId, result, responses, remote,
                   handler, halted>>

\* invoke from its call to the await of getAuthorizationHeader
InvokeStart(i) ==
    /\ pc[i] = "start"
    /\ startedAfter' = [startedAfter EXCEPT ![i] = {j \in Invocations : pc[j] \in Terminated}]
    /\ LET base == GetBaseURL(params[i], context[i])
           auth == GetAuthorizationHeader(context[i])
       IN  IF base.kind = "throw"
           THEN /\ Reject(i, base.value)
                /\ UNCHANGED <<baseUrl, authHeader, calls>>
           ELSE /\ baseUrl' = [baseUrl EXCEPT ![i] = base.value]
                /\ CASE auth.kind = "throw" ->
                          /\ pc' = [pc EXCEPT ![i] = "awaitAuth"]
                          /\ UNCHANGED <<error, authHeader, calls>>
                     [] auth.kind = "return" ->
                          /\ authHeader' = [authHeader EXCEPT ![i] = auth.value]
                          /\ pc' = [pc EXCEPT ![i] = "awaitAuth"]
                          /\ UNCHANGED <<error, calls>>
                     [] auth.kind = "fetch" ->
                          /\ Issue(i, auth.value, "awaitToken")
                          /\ UNCHANGED <<error, authHeader>>
    /\ UNCHANGED <<params, context, userId, assignmentId, result, responses, remote,
                   handler, halted>>

\* the response an invocation received last
LastResponse(i) == responses[i][Len(responses[i])]

\* the token endpoint answers: getClientCredentialsToken resumes with the
\* response and calls its json(), of a failed response as of a successful one
TokenResponse(i) ==
    /\ pc[i] = "awaitToken"
    /\ \E resp \in TokenResponses :
        responses' = [responses EXCEPT ![i] = Append(@, resp)]
    /\ pc' = [pc EXCEPT ![i] = "awaitTokenJson"]
    /\ UNCHANGED <<params, context, baseUrl, authHeader, userId, assignmentId, result,
                   error, calls, remote, startedAfter, handler, halted>>

\* json() of the token response settles: of a failed response the error is
\* thrown with the JSON, or text() is called when it is no JSON; of a successful
\* one the token is returned or its absence is thrown
TokenData(i) ==
    /\ pc[i] = "awaitTokenJson"
    /\ LET resp == LastResponse(i)
           out == TokenResponseOutcome(resp)
       IN  IF ~Ok(resp) /\ resp.body.kind # "json"
           THEN /\ pc' = [pc EXCEPT ![i] = "awaitTokenText"]
                /\ UNCHANGED <<authHeader, error>>
           ELSE IF out.kind = "throw"
           THEN /\ Reject(i, out.value)
                /\ UNCHANGED authHeader
           ELSE /\ authHeader' = [authHeader EXCEPT ![i] = out.value]
                /\ pc' = [pc EXCEPT ![i] = "awaitAuth"]
                /\ UNCHANGED error
    /\ UNCHANGED <<params, context, baseUrl, userId, assignmentId, result, calls,
                   responses, remote, startedAfter, handler, halted>>

\* text() of a failed token response settles: the error is thrown with the text,
\* or the rejection of text() is
TokenErrorText(i) ==
    /\ pc[i] = "awaitTokenText"
    /\ Reject(i, TokenResponseOutcome(LastResponse(i)).value)
    /\ UNCHANGED <<params, context, baseUrl, authHeader, userId, assignmentId, result,
                   calls, responses, remote, startedAfter, handler, halted>>

\* the await of getAuthorizationHeader settles: invoke throws the error
\* getAuthorizationHeader rejected with, or resumes with the header and issues
\* the user query
InvokeFindUser(i) ==
    /\ pc[i] = "awaitAuth"
    /\ IF GetAuthorizationHeader(context[i]).kind = "throw"
       THEN /\ Reject(i, GetAuthorizationHeader(context[i]).value)
            /\ UNCHANGED calls
       ELSE /\ Issue(i, FindUserByUsername(params[i].username, baseUrl[i],
                                           authHeader[i]),
                     "awaitUser")
            /\ UNCHANGED error
    /\ UNCHANGED <<params, context, baseUrl, authHeader, userId, assignmentId, result,
                   responses, remote, startedAfter, handler, halted>>

\* the user query is answered: invoke resumes with the response and throws for
\* a failure or calls json()
UserResponse(i) ==
    /\ pc[i] = "awaitUser"
    /\ \E resp \in ResponsesTo(LastRequest(i), baseUrl[i]) :
        /\ responses' = [responses EXCEPT ![i] = Append(@, resp)]
        /\ IF ~Ok(resp)
           THEN Reject(i, UserOutcome(params[i], baseUrl[i], authHeader[i], resp).value)
           ELSE /\ pc' = [pc EXCEPT ![i] = "awaitUserJson"]
                /\ UNCHANGED error
    /\ UNCHANGED <<params, context, baseUrl, authHeader, userId, assignmentId, result,
                   calls, remote, startedAfter, handler, halted>>

\* json() of the user response settles: invoke throws, or takes the user id and
\* issues the assignment query
UserData(i) ==
    /\ pc[i] = "awaitUserJson"
    /\ LET resp == LastResponse(i)
           out == UserOutcome(params[i], baseUrl[i], authHeader[i], resp)
       IN  IF out.kind = "throw"
           THEN /\ Reject(i, out.value)
                /\ UNCHANGED <<userId, calls>>
           ELSE /\ userId' = [userId EXCEPT ![i] = FirstId(resp.body)]
                /\ Issue(i, out.value, "awaitAssignment")
                /\ UNCHANGED error
    /\ UNCHANGED <<params, context, baseUrl, authHeader, assignmentId, result, responses,
                   remote, startedAfter, handler, halted>>

\* the assignment query is answered: invoke resumes with the response and throws
\* for a failure or calls json()
AssignmentResponse(i) ==
    /\ pc[i] = "awaitAssignment"
    /\ \E resp \in ResponsesTo(LastRequest(i), baseUrl[i]) :
        /\ responses' = [responses EXCEPT ![i] = Append(@, resp)]
        /\ IF ~Ok(resp)
           THEN Reject(i, AssignmentOutcome(params[i], baseUrl[i], authHeader[i],
                                            userId[i], resp).value)
           ELSE /\ pc' = [pc EXCEPT ![i] = "awaitAssignmentJson"]
                /\ UNCHANGED error
    /\ UNCHANGED <<params, context, baseUrl, authHeader, userId, assignmentId, result,
                   calls, remote, startedAfter, handler, halted>>

\* json() of the assignment response settles: invoke throws, returns removed:
\* false, or takes the assignment id and issues the DELETE
AssignmentData(i) ==
    /\ pc[i] = "awaitAssignmentJson"
    /\ LET resp == LastResponse(i)
           out == AssignmentOutcome(params[i], baseUrl[i], authHeader[i], userId[i], resp)
       IN  CASE out.kind = "throw" ->
                  /\ Reject(i, out.value)
                  /\ UNCHANGED <<assignmentId, result, calls>>
             [] out.kind = "return" ->
                  /\ result' = [result EXCEPT ![i] = out.value]
                  /\ pc' = [pc EXCEPT ![i] = "done"]
                  /\ UNCHANGED <<assignmentId, error, calls>>
             [] out.kind = "fetch" ->
                  /\ assignmentId' = [assignmentId EXCEPT ![i] = FirstId(resp.body)]
                  /\ Issue(i, out.value, "awaitDelete")
                  /\ UNCHANGED <<result, error>>
    /\ UNCHANGED <<params, context, baseUrl, authHeader, userId, responses, remote,
                   startedAfter, handler, halted>>

\* the DELETE is answered
DeleteResponse(i) ==
    /\ pc[i] = "awaitDelete"
    /\ \E resp \in ResponsesTo(LastRequest(i), baseUrl[i]) :
        LET out == DeleteOutcome(params[i], baseUrl[i], userId[i], assignmentId[i], resp)
        IN  /\ responses' = [responses EXCEPT ![i] = Append(@, resp)]
            /\ remote' = RemoteAfter(LastRequest(i), baseUrl[i], resp)
            /\ IF out.kind = "throw"
               THEN /\ Reject(i, out.value)
                    /\ UNCHANGED result
               ELSE /\ result' = [result EXCEPT ![i] = out.value]
                    /\ pc' = [pc EXCEPT ![i] = "done"]
                    /\ UNCHANGED error
    /\ UNCHANGED <<params, context, baseUrl, authHeader, userId, assignmentId, calls,
                   startedAfter, handler, halted>>

\* the framework hands the error invoke rejected with to the error handler
ErrorHandler(i) ==
    /\ pc[i] = "failed"
    /\ handler[i].kind = "none"
    /\ handler' = [handler EXCEPT ![i] = ErrorHandlerOutcome(error[i])]
    /\ UNCHANGED <<pc, params, context, baseUrl, authHeader, userId, assignmentId,
                   result, error, calls, responses, remote, startedAfter, halted>>

\* the framework signals a halt: the halt handler runs with the original params
\* and the reason
Halt(i) ==
    /\ pc[i] # "idle"
    /\ halted[i].result.status = "none"
    /\ \E reason \in HaltReasons, at \in HaltTimes :
        LET given == [username |-> params[i].username, reason |-> reason]
        IN  halted' = [halted EXCEPT ![i] =
                          [params |-> given, result |-> HaltOutcome(given, at).value]]
    /\ UNCHANGED <<pc, params, context, baseUrl, authHeader, userId, assignmentId,
                   result, error, calls, responses, remote, startedAfter, handler>>

Next ==
    \E i \in Invocations :
        \/ InvokeStart(i)
        \/ TokenResponse(i)
        \/ TokenData(i)
        \/ TokenErrorText(i)
        \/ InvokeFindUser(i)
        \/ UserResponse(i)
        \/ UserData(i)
        \/ AssignmentResponse(i)
        \/ AssignmentData(i)
        \/ DeleteResponse(i)
        \/ ErrorHandler(i)

----------------------------------------------------------------------------
(* Inputs and specifications.                                              *)

\* context.secrets with nothing configured
NoSecrets ==
    [BEARER_AUTH_TOKEN |-> Undefined,
     BASIC_USERNAME |-> Undefined,
     BASIC_PASSWORD |-> Undefined,
     OAUTH2_AUTHORIZATION_CODE_ACCESS_TOKEN |-> Undefined,
     OAUTH2_CLIENT_CREDENTIALS_CLIENT_SECRET |-> Undefined]

\* context.environment with nothing configured
NoEnvironment ==
    [ADDRESS |-> Undefined,
     OAUTH2_CLIENT_CREDENTIALS_TOKEN_URL |-> Undefined,
     OAUTH2_CLIENT_CREDENTIALS_CLIENT_ID |-> Undefined,
     OAUTH2_CLIENT_CREDENTIALS_SCOPE |-> Undefined,
     OAUTH2_CLIENT_CREDENTIALS_AUDIENCE |-> Undefined,
     OAUTH2_CLIENT_CREDENTIALS_AUTH_STYLE |-> Undefined]

\* the secrets of the workflow's contexts: none, a bearer token, client credentials
WorkflowSecrets ==
    {NoSecrets,
     [NoSecrets EXCEPT !.BEARER_AUTH_TOKEN = <<"t", "b">>],
     [NoSecrets EXCEPT !.OAUTH2_CLIENT_CREDENTIALS_CLIENT_SECRET = <<"s">>]}

\* the environments of the workflow's contexts: with and without a default address
WorkflowEnvironments ==
    {[NoEnvironment EXCEPT !.ADDRESS = a,
                           !.OAUTH2_CLIENT_CREDENTIALS_TOKEN_URL = <<"k">>,
                           !.OAUTH2_CLIENT_CREDENTIALS_CLIENT_ID = <<"c">>]
        : a \in {Undefined, <<"e">>}}

WorkflowContexts == [secrets : WorkflowSecrets, environment : WorkflowEnvironments]

\* the params of the workflow: each of username and permissionSetId missing,
\* empty or given, with and without a character that a URL reserves; the address
\* missing, empty or given with a trailing slash
WorkflowParams ==
    [username : {Undefined, <<>>, <<"a", "@", "b">>},
     permissionSetId : {Undefined, <<>>, <<"P", "1">>, <<"P", "&", "1">>},
     address : {Undefined, <<>>, <<"h", "/">>}]

\* the state before any invocation has run
StartState(ps, cs, pcs, rem) ==
    /\ pc = pcs
    /\ params = ps
    /\ context = cs
    /\ baseUrl = [i \in Invocations |-> Undefined]
    /\ authHeader = [i \in Invocations |-> Undefined]
    /\ userId = [i \in Invocations |-> Undefined]
    /\ assignmentId = [i \in Invocations |-> Undefined]
    /\ result = [i \in Invocations |-> NoResult]
    /\ error = [i \in Invocations |-> Undefined]
    /\ calls = <<>>
    /\ responses = [i \in Invocations |-> <<>>]
    /\ remote = rem
    /\ startedAfter = [i \in Invocations |-> {}]
    /\ handler = [i \in Invocations |-> [kind |-> "none", value |-> Undefined]]
    /\ halted = [i \in Invocations |-> NoHalt]

\* one invocation against a transport that may answer anything
Init ==
    \E p \in WorkflowParams, c \in WorkflowContexts :
        StartState([i \in Invocations |-> p], [i \in Invocations |-> c],
                   [i \in Invocations |-> IF i = 1 THEN "start" ELSE "idle"],
                   [faithful |-> FALSE, assignments |-> Assignments])

Spec == Init /\ [][Next]_vars

\* two invocations, interleaved at their awaits, against a remote service that
\* answers from its records or fails
PairParams ==
    [username : {<<"a", "@", "b">>, <<"z">>},
     permissionSetId : {<<"P", "1">>, <<"P", "2">>},
     address : {Undefined}]

PairContexts ==
    [secrets : WorkflowSecrets \ {NoSecrets},
     environment : {e \in WorkflowEnvironments : e.ADDRESS # Undefined}]

InitPair ==
    \E p1 \in PairParams, p2 \in PairParams, c \in PairContexts,
       held \in SUBSET Assignments :
        StartState([i \in Invocations |-> IF i = 1 THEN p1 ELSE p2],
                   [i \in Invocations |-> c],
                   [i \in Invocations |-> "start"],
                   [faithful |-> TRUE, assignments |-> held])

SpecPair == InitPair /\ [][Next]_vars

\* credential resolution for every combination of secrets and environment values:
\* one invocation up to its first request to the remote service
AuthSecrets ==
    [BEARER_AUTH_TOKEN : {Undefined, <<>>, <<"t", "b">>, BearerPrefix \o <<"t", "b">>,
                          BearerPrefix \o BearerPrefix \o <<"t", "b">>},
     BASIC_USERNAME : {Undefined, <<"u">>},
     BASIC_PASSWORD : {Undefined, <<"p">>},
     OAUTH2_AUTHORIZATION_CODE_ACCESS_TOKEN :
        {Undefined, <<"t", "a">>, BearerPrefix \o <<"t", "a">>,
         BearerPrefix \o BearerPrefix \o <<"t", "a">>},
     OAUTH2_CLIENT_CREDENTIALS_CLIENT_SECRET : {Undefined, <<"s">>}]

AuthEnvironments ==
    [ADDRESS : {Undefined, <<"e">>},
     OAUTH2_CLIENT_CREDENTIALS_TOKEN_URL : {Undefined, <<"k">>},
     OAUTH2_CLIENT_CREDENTIALS_CLIENT_ID : {Undefined, <<"c">>},
     OAUTH2_CLIENT_CREDENTIALS_SCOPE : {Undefined, <<"r", " ", "w">>},
     OAUTH2_CLIENT_CREDENTIALS_AUDIENCE : {Undefined, <<"a">>},
     OAUTH2_CLIENT_CREDENTIALS_AUTH_STYLE :
        {Undefined, <<"I", "n", "P", "a", "r", "a", "m", "s">>,
         <<"I", "n", "H", "e", "a", "d", "e", "r">>}]

InitAuth ==
    \E s \in AuthSecrets, e \in AuthEnvironments :
        StartState([i \in Invocations |->
                        [username |-> <<"a", "@", "b">>,
                         permissionSetId |-> <<"P", "1">>,
                         address |-> Undefined]],
                   [i \in Invocations |-> [secrets |-> s, environment |-> e]],
                   [i \in Invocations |-> IF i = 1 THEN "start" ELSE "idle"],
                   [faithful |-> FALSE, assignments |-> Assignments])

NextAuth ==
    \E i \in Invocations :
        \/ InvokeStart(i)
        \/ TokenResponse(i)
        \/ TokenData(i)
        \/ TokenErrorText(i)
        \/ InvokeFindUser(i)
        \/ ErrorHandler(i)

SpecAuth == InitAuth /\ [][NextAuth]_vars

\* one invocation with its params given, in every context of the workflow,
\* against a transport that may answer anything
InitSteps ==
    \E c \in WorkflowContexts :
        StartState([i \in Invocations |->
                        [username |-> <<"a", "@", "b">>,
                         permissionSetId |-> <<"P", "1">>,
                         address |-> Undefined]],
                   [i \in Invocations |-> c],
                   [i \in Invocations |-> IF i = 1 THEN "start" ELSE "idle"],
                   [faithful |-> FALSE, assignments |-> Assignments])

SpecSteps == InitSteps /\ [][Next]_vars

\* the steps of invocation i between its call and its return or throw
Step(i) ==
    \/ InvokeStart(i)
    \/ TokenResponse(i)
    \/ TokenData(i)
    \/ TokenErrorText(i)
    \/ InvokeFindUser(i)
    \/ UserResponse(i)
    \/ UserData(i)
    \/ AssignmentResponse(i)
    \/ AssignmentData(i)
    \/ DeleteResponse(i)

\* every call is answered and every continuation is run
SpecLive == InitSteps /\ [][Next]_vars /\ \A i \in Invocations : WF_vars(Step(i))

\* target resolution for every shape of the two addresses: missing, empty, a
\* slash alone, and a host with no, one or two trailing slashes
AddressValues ==
    {Undefined, <<>>, <<"/">>, <<"/", "/">>, <<"h">>, <<"h", "/">>, <<"h", "/", "/">>}

InitAddress ==
    \E a \in AddressValues, e \in AddressValues,
       s \in {NoSecrets, [NoSecrets EXCEPT !.BEARER_AUTH_TOKEN = <<"t", "b">>]} :
        StartState([i \in Invocations |->
                        [username |-> <<"a", "@", "b">>,
                         permissionSetId |-> <<"P", "1">>,
                         address |-> a]],
                   [i \in Invocations |->
                        [secrets |-> s,
                         environment |-> [NoEnvironment EXCEPT !.ADDRESS = e]]],
                   [i \in Invocations |-> IF i = 1 THEN "start" ELSE "idle"],
                   [faithful |-> FALSE, assignments |-> Assignments])

NextAddress ==
    \E i \in Invocations :
        \/ InvokeStart(i)
        \/ InvokeFindUser(i)
        \/ ErrorHandler(i)

SpecAddress == InitAddress /\ [][NextAddress]_vars

\* one configured invocation, with the username missing, empty or given, against
\* a remote service that answers from its records or fails, and a halt that may
\* be signalled at any moment
InitHalt ==
    \E u \in {Undefined, <<>>, <<"a", "@", "b">>}, held \in SUBSET Assignments :
        StartState([i \in Invocations |->
                        [username |-> u,
                         permissionSetId |-> <<"P", "1">>,
                         address |-> Undefined]],
                   [i \in Invocations |->
                        [secrets |-> [NoSecrets EXCEPT !.BEARER_AUTH_TOKEN = <<"t", "b">>],
                         environment |-> [NoEnvironment EXCEPT !.ADDRESS = <<"e">>]]],
                   [i \in Invocations |-> IF i = 1 THEN "start" ELSE "idle"],
                   [faithful |-> TRUE, assignments |-> held])

NextHalt ==
    \E i \in Invocations :
        \/ InvokeStart(i)
        \/ InvokeFindUser(i)
        \/ UserResponse(i)
        \/ UserData(i)
        \/ AssignmentResponse(i)
        \/ AssignmentData(i)
        \/ DeleteResponse(i)
        \/ ErrorHandler(i)
        \/ Halt(i)

SpecHalt == InitHalt /\ [][NextHalt]_vars

----------------------------------------------------------------------------
(* What the properties read off a state.                                   *)

\* the requests an invocation has issued, in order
CallsOf(i) == SelectSeq(calls, LAMBDA c : c.inv = i)

\* a request to the token endpoint
IsTokenCall(c) == c.req.method = "POST"

\* the requests an invocation has issued to the remote service
ServiceCalls(i) == SelectSeq(CallsOf(i), LAMBDA c : ~IsTokenCall(c))

\* the responses of the remote service to an invocation, in order
ServiceResponses(i) ==
    IF CallsOf(i) # <<>> /\ IsTokenCall(CallsOf(i)[1]) /\ responses[i] # <<>>
    THEN Tail(responses[i])
    ELSE responses[i]

\* a lookup response that succeeded, with at least one record or with none
Found(resp) == Ok(resp) /\ resp.body.kind = "json" /\ ~NoRecords(resp.body)

FoundNothing(resp) == Ok(resp) /\ resp.body.kind = "json" /\ NoRecords(resp.body)

\* invoke is not waiting for json() or text() of the response it received last
BodyRead(i) ==
    pc[i] \notin {"awaitTokenJson", "awaitTokenText", "awaitUserJson", "awaitAssignmentJson"}

\* the principal lookup of i found a record and its relation lookup was answered
RelationAnswered(i) ==
    Len(ServiceResponses(i)) >= 2 /\ Found(ServiceResponses(i)[1])

\* the methods of the requests an invocation has issued to the remote service
ServiceMethods(i) == [k \in 1..Len(ServiceCalls(i)) |-> ServiceCalls(i)[k].req.method]

\* every answer the remote service gave to i came from its records
AnsweredFromRecords(i) ==
    \A k \in 1..Len(ServiceResponses(i)) : ServiceResponses(i)[k].status # 503

----------------------------------------------------------------------------
(* C1: idempotence.  Against a remote service that honours deletes, when an *)
(* invocation has found and deleted the assignment, an invocation for the   *)
(* same username and permission set started after it, whose credentials    *)
(* resolve and whose requests are answered from the remote service's        *)
(* records, ends in success with removed = false and assignmentId = null,   *)
(* not in an error.                                                         *)
C1_Idempotent ==
    \A i \in Invocations : \A j \in Invocations \ {i} :
        (/\ pc[i] = "done" /\ result[i].removed
         /\ i \in startedAfter[j]
         /\ params[j].username = params[i].username
         /\ params[j].permissionSetId = params[i].permissionSetId
         /\ pc[j] \in Terminated
         /\ authHeader[j] # Undefined
         /\ AnsweredFromRecords(j))
        => (/\ pc[j] = "done"
            /\ result[j].status = "success"
            /\ result[j].removed = FALSE
            /\ result[j].assignmentId = Null)

\* C1 witness: a second invocation has run to its end after a removal
C1_Witness ==
    /\ pc[1] = "done" /\ result[1].removed
    /\ 1 \in startedAfter[2]
    /\ params[2].username = params[1].username
    /\ params[2].permissionSetId = params[1].permissionSetId
    /\ pc[2] = "done" /\ ~result[2].removed
    /\ Len(ServiceCalls(2)) = 2

(* C2: when the principal lookup succeeds with at least one record and the  *)
(* relation lookup succeeds with zero records, invoke returns status        *)
(* success with removed = false and assignmentId = null, and exactly two    *)
(* requests have gone to the remote service, both lookups, no DELETE (once   *)
(* invoke has resumed with the parsed body).                                *)
C2_AlreadyAbsent ==
    \A i \in Invocations :
        (BodyRead(i) /\ RelationAnswered(i) /\ FoundNothing(ServiceResponses(i)[2]))
        => (/\ pc[i] = "done"
            /\ result[i].status = "success"
            /\ result[i].removed = FALSE
            /\ result[i].assignmentId = Null
            /\ ServiceMethods(i) = <<"GET", "GET">>)

\* C2 witness: an invocation ended on the already-absent branch
C2_Witness ==
    /\ RelationAnswered(1) /\ FoundNothing(ServiceResponses(1)[2])
    /\ pc[1] = "done" /\ ~result[1].removed

(* C3 as stated: whenever the relation lookup returns one or more records,  *)
(* exactly three requests are made and the outcome is success with          *)
(* removed = true and assignmentId the Id of the first record.              *)
C3_Original ==
    \A i \in Invocations :
        (RelationAnswered(i) /\ Found(ServiceResponses(i)[2]) /\ pc[i] \in Terminated)
        => (/\ ServiceMethods(i) = <<"GET", "GET", "DELETE">>
            /\ pc[i] = "done"
            /\ result[i].status = "success"
            /\ result[i].removed = TRUE
            /\ result[i].assignmentId = ServiceResponses(i)[2].body.records[1].Id)

(* C3 amended: whenever the relation lookup returns one or more records,    *)
(* exactly three requests are made (lookup, lookup, DELETE), and when the   *)
(* DELETE is answered with success the outcome is success with              *)
(* removed = true and assignmentId the Id of the first record (once invoke  *)
(* has resumed with the parsed body of the relation lookup).                *)
C3_Removed ==
    \A i \in Invocations :
        (BodyRead(i) /\ RelationAnswered(i) /\ Found(ServiceResponses(i)[2]))
        => (/\ ServiceMethods(i) = <<"GET", "GET", "DELETE">>
            /\ (Len(ServiceResponses(i)) = 3 /\ Ok(ServiceResponses(i)[3]))
               => (/\ pc[i] = "done"
                   /\ result[i].status = "success"
                   /\ result[i].removed = TRUE
                   /\ result[i].assignmentId
                        = ServiceResponses(i)[2].body.records[1].Id))

\* C3 witness: a removal after a relation lookup that returned two records
C3_Witness ==
    /\ RelationAnswered(1) /\ Len(ServiceResponses(1)[2].body.records) = 2
    /\ ServiceResponses(1)[2].body.records[1].Id
         # ServiceResponses(1)[2].body.records[2].Id
    /\ pc[1] = "done" /\ result[1].removed

(* C4: when the principal lookup succeeds with zero records, invoke fails   *)
(* with the user-not-found error naming the username, and exactly one       *)
(* request has gone to the remote service: no relation query, no DELETE     *)
(* (once invoke has resumed with the parsed body).                          *)
C4_UserNotFound ==
    \A i \in Invocations :
        (/\ BodyRead(i)
         /\ Len(ServiceResponses(i)) >= 1 /\ FoundNothing(ServiceResponses(i)[1]))
        => (/\ pc[i] = "failed"
            /\ StartsWith(error[i], <<"User not found: ">>)
            /\ params[i].username # Undefined
               => error[i] = <<"User not found: ">> \o params[i].username
            /\ ServiceMethods(i) = <<"GET">>)

\* C4 witness: the lookup of a given username found nothing
C4_Witness ==
    /\ Len(ServiceResponses(1)) = 1 /\ FoundNothing(ServiceResponses(1)[1])
    /\ params[1].username = <<"a", "@", "b">>
    /\ pc[1] = "failed"

(* C5 as stated: in every success result, removed = false if and only if    *)
(* assignmentId is null if and only if the relation lookup returned zero    *)
(* matches, for every shape of lookup response.                             *)
C5_Original ==
    \A i \in Invocations :
        (pc[i] = "done" /\ result[i].status = "success")
        => (/\ (result[i].removed = FALSE) <=> (result[i].assignmentId = Null)
            /\ (result[i].assignmentId = Null)
                 <=> FoundNothing(ServiceResponses(i)[2]))

(* C6: credential resolution follows the precedence Bearer, Basic,          *)
(* AuthorizationCode, ClientCredentials: once the address has resolved, the *)
(* first variant in that order whose required values are all present is    *)
(* the one used, whatever else is configured, and a partially configured    *)
(* variant of lower precedence neither changes the header nor makes the     *)
(* resolution fail.                                                         *)
C6_Precedence ==
    \A i \in Invocations :
        (pc[i] \notin {"idle", "start"} /\ error[i] # NoURLMessage)
        => LET s == context[i].secrets
               e == context[i].environment
               untouched == /\ pc[i] \in {"awaitAuth", "awaitUser"}
                            /\ \A k \in 1..Len(CallsOf(i)) : ~IsTokenCall(CallsOf(i)[k])
           IN  IF Truthy(s.BEARER_AUTH_TOKEN)
               THEN /\ untouched
                    /\ StartsWith(authHeader[i], BearerPrefix)
                    /\ EndsWith(authHeader[i], s.BEARER_AUTH_TOKEN)
               ELSE IF Truthy(s.BASIC_USERNAME) /\ Truthy(s.BASIC_PASSWORD)
               THEN /\ untouched
                    /\ StartsWith(authHeader[i], BasicPrefix)
               ELSE IF Truthy(s.OAUTH2_AUTHORIZATION_CODE_ACCESS_TOKEN)
               THEN /\ untouched
                    /\ StartsWith(authHeader[i], BearerPrefix)
                    /\ EndsWith(authHeader[i], s.OAUTH2_AUTHORIZATION_CODE_ACCESS_TOKEN)
               ELSE IF /\ Truthy(s.OAUTH2_CLIENT_CREDENTIALS_CLIENT_SECRET)
                       /\ Truthy(e.OAUTH2_CLIENT_CREDENTIALS_TOKEN_URL)
                       /\ Truthy(e.OAUTH2_CLIENT_CREDENTIALS_CLIENT_ID)
               THEN /\ CallsOf(i) # <<>>
                    /\ IsTokenCall(CallsOf(i)[1])
                    /\ CallsOf(i)[1].req.url = e.OAUTH2_CLIENT_CREDENTIALS_TOKEN_URL
               ELSE TRUE

\* C6 witness: Bearer and Basic are both present, beside a client secret without
\* its token URL, and the header is the bearer token's
C6_Witness ==
    /\ Truthy(context[1].secrets.BEARER_AUTH_TOKEN)
    /\ Truthy(context[1].secrets.BASIC_USERNAME)
    /\ Truthy(context[1].secrets.BASIC_PASSWORD)
    /\ Truthy(context[1].secrets.OAUTH2_CLIENT_CREDENTIALS_CLIENT_SECRET)
    /\ ~Truthy(context[1].environment.OAUTH2_CLIENT_CREDENTIALS_TOKEN_URL)
    /\ pc[1] = "awaitUser"
    /\ StartsWith(authHeader[1], BearerPrefix)

\* no variant's secrets are present in the context
NoSecretBundle(ctx) ==
    /\ ~Truthy(ctx.secrets.BEARER_AUTH_TOKEN)
    /\ ~(Truthy(ctx.secrets.BASIC_USERNAME) /\ Truthy(ctx.secrets.BASIC_PASSWORD))
    /\ ~Truthy(ctx.secrets.OAUTH2_AUTHORIZATION_CODE_ACCESS_TOKEN)
    /\ ~Truthy(ctx.secrets.OAUTH2_CLIENT_CREDENTIALS_CLIENT_SECRET)

\* an address is supplied, in the params or in the environment
AddressSupplied(i) ==
    Truthy(params[i].address) \/ Truthy(context[i].environment.ADDRESS)

(* C7 as stated: when no secret bundle is present, invoke fails with the    *)
(* no-authentication-configured error and has made no network call.         *)
C7_Original ==
    \A i \in Invocations :
        (NoSecretBundle(context[i]) /\ pc[i] \in Terminated)
        => (/\ pc[i] = "failed"
            /\ error[i] = NoAuthMessage
            /\ CallsOf(i) = <<>>)

(* C7 amended: when no secret bundle is present and an address is supplied, *)
(* invoke fails with the no-authentication-configured error and has made no *)
(* network call: after its call it is at the await of the rejected          *)
(* credential resolution, and from there it only fails, with that error.    *)
C7_NoAuth ==
    \A i \in Invocations :
        (NoSecretBundle(context[i]) /\ AddressSupplied(i)
         /\ pc[i] \notin {"idle", "start"})
        => (/\ pc[i] \in {"awaitAuth", "failed"}
            /\ pc[i] = "failed" <=> error[i] = NoAuthMessage
            /\ pc[i] = "awaitAuth" <=> error[i] = Undefined
            /\ authHeader[i] = Undefined
            /\ CallsOf(i) = <<>>)

\* C7 witness: an invocation with an address and no secrets has failed
C7_Witness ==
    /\ NoSecretBundle(context[1]) /\ AddressSupplied(1)
    /\ pc[1] = "failed" /\ error[1] = NoAuthMessage

(* C8: when neither params.address nor the environment's ADDRESS is         *)
(* supplied, invoke fails with the no-address error and has made no network *)
(* call.                                                                    *)
C8_NoAddress ==
    \A i \in Invocations :
        (~AddressSupplied(i) /\ pc[i] \notin {"idle", "start"})
        => (/\ pc[i] = "failed"
            /\ error[i] = NoURLMessage
            /\ calls = <<>>)

\* C8 witness: an invocation with credentials and no address has failed
C8_Witness ==
    /\ ~AddressSupplied(1)
    /\ Truthy(context[1].secrets.BEARER_AUTH_TOKEN)
    /\ pc[1] = "failed" /\ error[1] = NoURLMessage

(* C9 as stated: a request without a username is rejected with "username is *)
(* required", one without a permissionSetId with "permissionSetId is        *)
(* required", in both cases before any network call.                        *)
C9_Original ==
    \A i \in Invocations :
        (pc[i] \notin {"idle", "start"})
        => (/\ ~Truthy(params[i].username)
               => (/\ pc[i] = "failed"
                   /\ error[i] = <<"username is required">>
                   /\ CallsOf(i) = <<>>)
            /\ (Truthy(params[i].username) /\ ~Truthy(params[i].permissionSetId))
               => (/\ pc[i] = "failed"
                   /\ error[i] = <<"permissionSetId is required">>
                   /\ CallsOf(i) = <<>>))

\* the status codes the classifier looks for in an error message
HasRetryableCode(m) ==
    \/ Includes(m, <<"4", "2", "9">>) \/ Includes(m, <<"5", "0", "2">>)
    \/ Includes(m, <<"5", "0", "3">>) \/ Includes(m, <<"5", "0", "4">>)

HasFatalCode(m) == Includes(m, <<"4", "0", "1">>) \/ Includes(m, <<"4", "0", "3">>)

(* C10 as stated: the error handler classifies by the message: with 429,    *)
(* 502, 503 or 504 in it the handler returns retry_requested; with 401 or   *)
(* 403 it throws the same error again; for any other message it returns     *)
(* retry_requested.                                                         *)
C10_Original ==
    \A i \in Invocations :
        (handler[i].kind # "none")
        => IF HasRetryableCode(error[i]) THEN handler[i].kind = "return"
           ELSE IF HasFatalCode(error[i])
           THEN handler[i].kind = "throw" /\ handler[i].value = error[i]
           ELSE handler[i].kind = "return"

----------------------------------------------------------------------------
(* C11: the error handler throws every error it is given again, unchanged,  *)
(* whatever its message; it never returns a recovery result.                *)
C11_Rethrows ==
    \A i \in Invocations :
        (handler[i].kind # "none")
        => (handler[i].kind = "throw" /\ handler[i].value = error[i])

\* C11 witness: the handler has thrown an error that carries a 429 again
C11_Witness ==
    /\ handler[1].kind = "throw"
    /\ Includes(error[1], <<"4", "2", "9">>)
    /\ handler[1].value = error[1]

(* C12: the halt handler always returns status 'halted', the reason it was  *)
(* given, and the username it was given, or 'unknown' when it was given     *)
(* none; and running it issues no remote call.                              *)
C12_Halted ==
    /\ [](\A i \in Invocations :
            (halted[i].result.status # "none")
            => (/\ halted[i].result.status = "halted"
                /\ halted[i].result.reason = halted[i].params.reason
                /\ halted[i].result.username
                     = (IF halted[i].params.username \in {Undefined, Null, <<>>}
                        THEN <<"unknown">>
                        ELSE halted[i].params.username)))
    /\ [][halted' # halted => calls' = calls]_vars

\* C12 witness: the halt handler ran without a username and answered 'unknown'
C12_Witness ==
    /\ halted[1].result.status = "halted"
    /\ halted[1].params.username = Undefined
    /\ halted[1].result.username = <<"unknown">>
    /\ halted[1].result.reason = <<"timeout">>

\* the address a is the base address b, up to one trailing slash
DerivedFrom(b, a) == b = a \/ b \o <<"/">> = a

(* C13: whenever a non-empty params.address is supplied, the resolved base  *)
(* address is derived from it and not from the environment's ADDRESS; the  *)
(* environment's ADDRESS is used only when no params.address is supplied;   *)
(* and every request to the remote service goes to the resolved address.    *)
C13_AddressPrecedence ==
    \A i \in Invocations :
        (pc[i] \notin {"idle", "start"} /\ AddressSupplied(i))
        => (/\ IF params[i].address \notin {Undefined, Null, <<>>}
               THEN DerivedFrom(baseUrl[i], params[i].address)
               ELSE DerivedFrom(baseUrl[i], context[i].environment.ADDRESS)
            /\ \A k \in 1..Len(ServiceCalls(i)) :
                 StartsWith(ServiceCalls(i)[k].req.url, baseUrl[i]))

\* C13 witness: both addresses are supplied and the user query goes to the one
\* of the params
C13_Witness ==
    /\ params[1].address = <<"h", "/">>
    /\ context[1].environment.ADDRESS = <<"e">>
    /\ pc[1] = "awaitUser"
    /\ baseUrl[1] = <<"h">>
    /\ StartsWith(ServiceCalls(1)[1].req.url, <<"h", "/services/data/v61.0/query?q=">>)

(* C14: every success result echoes its inputs: username and                *)
(* permissionSetId are the caller's, userId is the Id of the first record   *)
(* of the principal lookup, and address is the resolved base address the    *)
(* calls went to, on the already-absent branch and on the removed branch.   *)
C14_Echo ==
    \A i \in Invocations :
        (pc[i] = "done")
        => (/\ result[i].status = "success"
            /\ result[i].username = params[i].username
            /\ result[i].permissionSetId = params[i].permissionSetId
            /\ result[i].userId = ServiceResponses(i)[1].body.records[1].Id
            /\ result[i].address = baseUrl[i]
            /\ \A k \in 1..Len(ServiceCalls(i)) :
                 StartsWith(ServiceCalls(i)[k].req.url, result[i].address))

\* C14 witness: a removal at an address given with a trailing slash, after a
\* principal lookup that returned two records
C14_Witness ==
    /\ pc[1] = "done"
    /\ result[1].removed
    /\ params[1].address = <<"h", "/">>
    /\ result[1].address = <<"h">>
    /\ Len(ServiceResponses(1)[1].body.records) = 2
    /\ result[1].userId = ServiceResponses(1)[1].body.records[1].Id
    /\ result[1].userId # ServiceResponses(1)[1].body.records[2].Id

(* C15 as stated: every caller-supplied term embedded in a query URL is     *)
(* percent-encoded before it is interpolated: the principal query carries   *)
(* the encoded username, the relation query carries the encoded             *)
(* permissionSetId, and no call carries a term that needs encoding in its   *)
(* unencoded form.                                                          *)
C15_Original ==
    \A i \in Invocations :
        \A k \in 1..Len(ServiceCalls(i)) :
            LET url == ServiceCalls(i)[k].req.url
                quoted(t) == <<"'">> \o EncodeURIComponent(t) \o <<"'">>
                raw(t) == t \notin {Undefined, Null} /\ EncodeURIComponent(t) # t
                              /\ Includes(url, t)
            IN  /\ k = 1 => Includes(url, quoted(params[i].username))
                /\ k = 2 => Includes(url, quoted(params[i].permissionSetId))
                /\ ~raw(params[i].username)
                /\ ~raw(params[i].permissionSetId)

\* s is an initial part of t
IsPrefix(s, t) == Len(s) <= Len(t) /\ SubSeq(t, 1, Len(s)) = s

(* C16: within one invocation the steps come in the order target            *)
(* resolution, credential resolution, principal lookup, relation lookup,    *)
(* then optionally DELETE: no request goes to the remote service before the *)
(* address and the header are resolved, the relation lookup is issued only  *)
(* after the principal lookup has returned success with a record, the       *)
(* DELETE only after the relation lookup has returned success with a        *)
(* record, and an invocation never has two calls in flight.                 *)
C16_Order ==
    \A i \in Invocations :
        /\ IsPrefix(ServiceMethods(i), <<"GET", "GET", "DELETE">>)
        /\ \A k \in 1..Len(CallsOf(i)) : IsTokenCall(CallsOf(i)[k]) => k = 1
        /\ ServiceCalls(i) # <<>>
           => (/\ baseUrl[i] # Undefined
               /\ authHeader[i] # Undefined
               /\ Includes(ServiceCalls(i)[1].req.url,
                           <<"SELECT+Id+FROM+User+WHERE+Username=">>))
        /\ Len(ServiceCalls(i)) >= 2
           => (/\ Len(ServiceResponses(i)) >= 1
               /\ Found(ServiceResponses(i)[1])
               /\ Includes(ServiceCalls(i)[2].req.url,
                           <<"SELECT+Id+FROM+PermissionSetAssignment+WHERE+AssigneeId=">>))
        /\ Len(ServiceCalls(i)) >= 3
           => (/\ Len(ServiceResponses(i)) >= 2
               /\ Found(ServiceResponses(i)[2]))
        /\ Len(CallsOf(i)) - Len(responses[i]) \in {0, 1}

\* C16 witness: after a token request and the two lookups, the DELETE is in
\* flight alone
C16_Witness ==
    /\ pc[1] = "awaitDelete"
    /\ Len(CallsOf(1)) = 4
    /\ IsTokenCall(CallsOf(1)[1])
    /\ ServiceMethods(1) = <<"GET", "GET", "DELETE">>
    /\ Len(responses[1]) = 3

(* C17 as stated: once a halt has been signalled while an invocation is in  *)
(* progress, the invocation issues no further remote call after the one in  *)
(* flight completes, and it does not go on to report a success: it reports  *)
(* a halted status.                                                         *)
C17_Original ==
    [][\A i \in Invocations :
         (halted[i].result.status = "halted" /\ pc[i] \notin Terminated)
         => (/\ CallsOf(i)' = CallsOf(i)
             /\ result'[i].status # "success")]_vars

\* the status and status text of a response, as an error message carries them
StatusLine(resp) == Digits(resp.status) \o <<" ">> \o resp.statusText

(* C18: a non-success response to either lookup makes invoke fail with the  *)
(* query-failed error carrying that response's status and status text, and  *)
(* no further call follows: one call to the remote service in all when the  *)
(* principal lookup fails, two and no DELETE when the relation lookup       *)
(* fails.                                                                   *)
C18_QueryFailed ==
    \A i \in Invocations :
        LET rs == ServiceResponses(i)
        IN  /\ (Len(rs) >= 1 /\ ~Ok(rs[1]))
               => (/\ pc[i] = "failed"
                   /\ error[i] = <<"Failed to query user: ">> \o StatusLine(rs[1])
                   /\ ServiceMethods(i) = <<"GET">>)
            /\ (Len(rs) >= 2 /\ ~Ok(rs[2]))
               => (/\ pc[i] = "failed"
                   /\ error[i] = <<"Failed to query permission set assignment: ">>
                                    \o StatusLine(rs[2])
                   /\ ServiceMethods(i) = <<"GET", "GET">>)

\* C18 witness: the relation lookup was answered 429 and invoke failed with it
C18_Witness ==
    /\ Len(ServiceResponses(1)) = 2
    /\ ServiceResponses(1)[2].status = 429
    /\ pc[1] = "failed"
    /\ Includes(error[1], <<"4", "2", "9">>)
    /\ handler[1].kind = "throw"

(* C19: a non-success response to the DELETE makes invoke fail with the     *)
(* delete-failed error carrying the status and status text, and invoke      *)
(* returns a success with removed = true only when the DELETE of that       *)
(* invocation was answered with success.                                    *)
C19_DeleteFailed ==
    \A i \in Invocations :
        LET rs == ServiceResponses(i)
        IN  /\ (Len(rs) >= 3 /\ ~Ok(rs[3]))
               => (/\ pc[i] = "failed"
                   /\ error[i] = <<"Failed to delete permission set assignment: ">>
                                    \o StatusLine(rs[3])
                   /\ result[i].status = "none")
            /\ (result[i].status = "success" /\ result[i].removed)
               => (/\ Len(rs) = 3
                   /\ ServiceMethods(i)[3] = "DELETE"
                   /\ Ok(rs[3]))

\* C19 witness: the DELETE was answered 503 and invoke failed with it
C19_Witness ==
    /\ Len(ServiceResponses(1)) = 3
    /\ ServiceResponses(1)[3].status = 503
    /\ pc[1] = "failed"
    /\ Includes(error[1], <<"Failed to delete permission set assignment: ">>)
    /\ Includes(error[1], <<"5", "0", "3">>)

\* no credential variant has all of its required fields
NoVariantComplete(ctx) ==
    /\ ~Truthy(ctx.secrets.BEARER_AUTH_TOKEN)
    /\ ~(Truthy(ctx.secrets.BASIC_USERNAME) /\ Truthy(ctx.secrets.BASIC_PASSWORD))
    /\ ~Truthy(ctx.secrets.OAUTH2_AUTHORIZATION_CODE_ACCESS_TOKEN)
    /\ ~(/\ Truthy(ctx.secrets.OAUTH2_CLIENT_CREDENTIALS_CLIENT_SECRET)
         /\ Truthy(ctx.environment.OAUTH2_CLIENT_CREDENTIALS_TOKEN_URL)
         /\ Truthy(ctx.environment.OAUTH2_CLIENT_CREDENTIALS_CLIENT_ID))

(* C20 as stated: whenever no credential variant has all of its required    *)
(* fields, a partly configured variant included (a client secret without    *)
(* token URL or client id, a Basic username without password), credential   *)
(* resolution fails with the no-authentication-configured error.            *)
C20_Original ==
    \A i \in Invocations :
        (NoVariantComplete(context[i]) /\ AddressSupplied(i)
         /\ pc[i] \in Terminated)
        => (pc[i] = "failed" /\ error[i] = NoAuthMessage)

(* C20 amended: whenever no credential variant has all of its required      *)
(* fields, credential resolution fails before any network call: with the    *)
(* client-credentials configuration error when a client secret is present   *)
(* without token URL or client id, and with the                             *)
(* no-authentication-configured error otherwise; until it has failed,       *)
(* invoke is at the await of the rejected credential resolution.            *)
C20_NoVariant ==
    \A i \in Invocations :
        (NoVariantComplete(context[i]) /\ AddressSupplied(i)
         /\ pc[i] \notin {"idle", "start"})
        => (/\ pc[i] \in {"awaitAuth", "failed"}
            /\ pc[i] = "awaitAuth" <=> error[i] = Undefined
            /\ authHeader[i] = Undefined
            /\ CallsOf(i) = <<>>
            /\ pc[i] = "failed"
               => error[i] = (IF Truthy(context[i].secrets.OAUTH2_CLIENT_CREDENTIALS_CLIENT_SECRET)
                              THEN ClientCredentialsEnvMessage
                              ELSE NoAuthMessage))

\* C20 witness: a client secret with a token URL and no client id, beside a Basic
\* username without password, has failed with the client-credentials error
C20_Witness ==
    /\ NoVariantComplete(context[1]) /\ AddressSupplied(1)
    /\ Truthy(context[1].secrets.OAUTH2_CLIENT_CREDENTIALS_CLIENT_SECRET)
    /\ Truthy(context[1].environment.OAUTH2_CLIENT_CREDENTIALS_TOKEN_URL)
    /\ Truthy(context[1].secrets.BASIC_USERNAME)
    /\ pc[1] = "failed"
    /\ error[1] = ClientCredentialsEnvMessage

\* the address getBaseURL resolves from: params.address || env.ADDRESS
SuppliedAddress(i) ==
    IF Truthy(params[i].address) THEN params[i].address
    ELSE context[i].environment.ADDRESS

(* C21 as stated: target resolution either fails or returns a non-empty     *)
(* base address, for every combination of params.address and environment    *)
(* address, an address that is a slash alone included: getBaseURL never     *)
(* returns the empty string.                                                *)
C21_Original ==
    \A i \in Invocations :
        (pc[i] \notin {"idle", "start"})
        => \/ pc[i] = "failed" /\ error[i] = NoURLMessage /\ baseUrl[i] = Undefined
           \/ baseUrl[i] \notin {Undefined, <<>>}

(* C22: target normalization strips exactly one trailing slash: an address  *)
(* ending in '/' is returned without that one final character (one ending   *)
(* in '//' still ends in '/'), an address not ending in '/' is returned     *)
(* unchanged.                                                               *)
C22_OneSlash ==
    \A i \in Invocations :
        (pc[i] \notin {"idle", "start"} /\ AddressSupplied(i))
        => LET a == SuppliedAddress(i)
           IN  IF a[Len(a)] = "/"
               THEN baseUrl[i] \o <<"/">> = a
               ELSE baseUrl[i] = a

\* C22 witness: an address with two trailing slashes was resolved to one that
\* keeps one of them
C22_Witness ==
    /\ params[1].address = <<"h", "/", "/">>
    /\ pc[1] = "awaitUser"
    /\ baseUrl[1] = <<"h", "/">>

\* the stored token the Bearer or AuthorizationCode variant formats, when one of
\* them is the variant used; Undefined otherwise
StoredToken(ctx) ==
    IF Truthy(ctx.secrets.BEARER_AUTH_TOKEN) THEN ctx.secrets.BEARER_AUTH_TOKEN
    ELSE IF Truthy(ctx.secrets.BASIC_USERNAME) /\ Truthy(ctx.secrets.BASIC_PASSWORD)
    THEN Undefined
    ELSE ctx.secrets.OAUTH2_AUTHORIZATION_CODE_ACCESS_TOKEN

(* C23 as stated: Bearer / AuthorizationCode formatting is idempotent: a    *)
(* stored token that starts with 'Bearer ' is the header as it is, any other *)
(* token gets the prefix prepended once, formatting the header again returns *)
(* it unchanged, and the header never carries the prefix twice.              *)
C23_Original ==
    \A i \in Invocations :
        (pc[i] \in {"awaitAuth", "awaitUser"} /\ Truthy(StoredToken(context[i])))
        => LET token == StoredToken(context[i])
           IN  /\ StartsWith(token, BearerPrefix) => authHeader[i] = token
               /\ ~StartsWith(token, BearerPrefix) => authHeader[i] = BearerPrefix \o token
               /\ FormatBearer(authHeader[i]) = authHeader[i]
               /\ ~StartsWith(authHeader[i], BearerPrefix \o BearerPrefix)

(* C23 amended: a stored token that starts with 'Bearer ' is the header as   *)
(* it is, any other token gets the prefix prepended once, and formatting the *)
(* header again returns it unchanged; the header carries the prefix twice    *)
(* exactly when the stored token itself starts with the prefix twice.        *)
C23_FormatIdempotent ==
    \A i \in Invocations :
        (pc[i] \in {"awaitAuth", "awaitUser"} /\ Truthy(StoredToken(context[i])))
        => LET token == StoredToken(context[i])
           IN  /\ StartsWith(token, BearerPrefix) => authHeader[i] = token
               /\ ~StartsWith(token, BearerPrefix) => authHeader[i] = BearerPrefix \o token
               /\ FormatBearer(authHeader[i]) = authHeader[i]
               /\ StartsWith(authHeader[i], BearerPrefix \o BearerPrefix)
                  <=> StartsWith(token, BearerPrefix \o BearerPrefix)

\* C23 witness: an authorization-code token stored with the prefix twice is the
\* header as it is, and the user query carries it
C23_Witness ==
    /\ ~Truthy(context[1].secrets.BEARER_AUTH_TOKEN)
    /\ context[1].secrets.OAUTH2_AUTHORIZATION_CODE_ACCESS_TOKEN
         = BearerPrefix \o BearerPrefix \o <<"t", "a">>
    /\ pc[1] = "awaitUser"
    /\ authHeader[1] = context[1].secrets.OAUTH2_AUTHORIZATION_CODE_ACCESS_TOKEN
    /\ CallsOf(1)[1].req.headers.Authorization = authHeader[1]

(* C24: the token request carries the client id and secret in exactly one   *)
(* place: in the form body when the auth style is 'InParams', and otherwise *)
(* (no auth style, or any other value) in a Basic authorization header;     *)
(* never in both and never in neither.                                      *)
C24_OnePlace ==
    \A i \in Invocations :
        \A k \in 1..Len(CallsOf(i)) :
            IsTokenCall(CallsOf(i)[k])
            => LET req == CallsOf(i)[k].req
                   e == context[i].environment
                   secret == context[i].secrets.OAUTH2_CLIENT_CREDENTIALS_CLIENT_SECRET
                   id == e.OAUTH2_CLIENT_CREDENTIALS_CLIENT_ID
                   inBody == \/ Includes(req.body, <<"&client_id=">>)
                             \/ Includes(req.body, <<"&client_secret=">>)
                   inHeader == req.headers.Authorization # Undefined
               IN  /\ inBody # inHeader
                   /\ inBody <=> (e.OAUTH2_CLIENT_CREDENTIALS_AUTH_STYLE
                                    = <<"I", "n", "P", "a", "r", "a", "m", "s">>)
                   /\ inBody => Includes(req.body, <<"&client_id=">> \o id
                                                   \o <<"&client_secret=">> \o secret)
                   /\ inHeader => req.headers.Authorization
                                    = BasicPrefix \o Btoa(id \o <<":">> \o secret)

\* C24 witness: with an auth style that is not 'InParams' the token request
\* carries the Basic header and a body with the scope only
C24_Witness ==
    /\ pc[1] = "awaitToken"
    /\ context[1].environment.OAUTH2_CLIENT_CREDENTIALS_AUTH_STYLE
         = <<"I", "n", "H", "e", "a", "d", "e", "r">>
    /\ Truthy(context[1].environment.OAUTH2_CLIENT_CREDENTIALS_SCOPE)
    /\ StartsWith(CallsOf(1)[1].req.headers.Authorization, BasicPrefix)
    /\ ~Includes(CallsOf(1)[1].req.body, <<"&client_id=">>)

\* the response of the token endpoint to invocation i, once it has answered
TokenAnswered(i) ==
    CallsOf(i) # <<>> /\ IsTokenCall(CallsOf(i)[1]) /\ responses[i] # <<>>

(* C25 as stated: on the client-credentials path a non-success token        *)
(* response fails with the token-request-failed error carrying the remote   *)
(* status, and a success response whose JSON has no access_token fails with *)
(* the missing-access-token error; in both cases no call to the remote      *)
(* service follows; on success the token is wrapped with 'Bearer '.         *)
C25_Original ==
    \A i \in Invocations :
        (TokenAnswered(i) /\ pc[i] \notin {"awaitTokenJson", "awaitTokenText"})
        => LET resp == responses[i][1]
           IN  /\ ~Ok(resp)
                  => (/\ pc[i] = "failed"
                      /\ StartsWith(error[i], <<"OAuth2 token request failed: ">>
                                              \o StatusLine(resp))
                      /\ ServiceCalls(i) = <<>>)
               /\ (Ok(resp) /\ resp.body.kind = "json" /\ ~Truthy(resp.body.access_token))
                  => (/\ pc[i] = "failed"
                      /\ error[i] = NoAccessTokenMessage
                      /\ ServiceCalls(i) = <<>>)
               /\ (Ok(resp) /\ resp.body.kind = "json" /\ Truthy(resp.body.access_token))
                  => authHeader[i] = BearerPrefix \o resp.body.access_token

\* the client-credentials variant is the one credential resolution selects
ClientCredentialsSelected(ctx) ==
    /\ ~Truthy(ctx.secrets.BEARER_AUTH_TOKEN)
    /\ ~(Truthy(ctx.secrets.BASIC_USERNAME) /\ Truthy(ctx.secrets.BASIC_PASSWORD))
    /\ ~Truthy(ctx.secrets.OAUTH2_AUTHORIZATION_CODE_ACCESS_TOKEN)
    /\ Truthy(ctx.secrets.OAUTH2_CLIENT_CREDENTIALS_CLIENT_SECRET)
    /\ Truthy(ctx.environment.OAUTH2_CLIENT_CREDENTIALS_TOKEN_URL)
    /\ Truthy(ctx.environment.OAUTH2_CLIENT_CREDENTIALS_CLIENT_ID)

\* the requests an invocation has sent to the token endpoint
TokenCalls(i) == SelectSeq(CallsOf(i), IsTokenCall)

(* C26: credential resolution makes exactly one network call when the       *)
(* client-credentials variant is selected, and none when another variant is *)
(* selected or when resolution fails for lack of configuration; it runs     *)
(* once, so an invocation issues at most one token request.                 *)
C26_OneTokenCall ==
    \A i \in Invocations :
        /\ Len(TokenCalls(i)) <= 1
        /\ (pc[i] \notin {"idle", "start"} /\ AddressSupplied(i))
           => (Len(TokenCalls(i)) = 1 <=> ClientCredentialsSelected(context[i]))
        /\ pc[i] = "awaitAuth"
           => Len(CallsOf(i)) = (IF ClientCredentialsSelected(context[i]) THEN 1 ELSE 0)

\* C26 witness: the token request of a client-credentials context has been
\* answered and was the only call before the first request to the service
C26_Witness ==
    /\ ClientCredentialsSelected(context[1])
    /\ pc[1] = "awaitUser"
    /\ Len(TokenCalls(1)) = 1
    /\ Len(CallsOf(1)) = 2

\* the error the step that ended invocation i raised, read off what the
\* invocation was given and what it was answered
RaisedError(i) ==
    LET rs == ServiceResponses(i)
        last == rs[Len(rs)]
    IN  IF CallsOf(i) = <<>>
        THEN IF ~AddressSupplied(i) THEN NoURLMessage
             ELSE GetAuthorizationHeader(context[i]).value
        ELSE IF rs = <<>> THEN TokenResponseOutcome(responses[i][1]).value
        ELSE IF Len(rs) = 1
        THEN UserOutcome(params[i], baseUrl[i], authHeader[i], last).value
        ELSE IF Len(rs) = 2
        THEN AssignmentOutcome(params[i], baseUrl[i], authHeader[i], userId[i], last).value
        ELSE <<"Failed to delete permission set assignment: ">> \o StatusLine(last)

(* C27: every error a step raises (address, auth, token, query,             *)
(* principal-not-found, delete) reaches the caller of invoke with the same  *)
(* message: invoke rejects with exactly the error of the step that failed,  *)
(* the error handler hands that same error on, and an invocation in which a *)
(* step failed never returns a success result.                              *)
C27_Propagates ==
    \A i \in Invocations :
        /\ pc[i] = "failed"
           => (/\ error[i] = RaisedError(i)
               /\ result[i].status = "none"
               /\ handler[i].kind # "none" => handler[i].value = RaisedError(i))
        /\ pc[i] = "done"
           => (/\ error[i] = Undefined
               /\ \A k \in 1..Len(responses[i]) : Ok(responses[i][k]))

\* C27 witness: the token step failed for a missing access_token and the caller
\* of invoke received that error
C27_Witness ==
    /\ pc[1] = "failed"
    /\ TokenAnswered(1)
    /\ error[1] = NoAccessTokenMessage
    /\ handler[1].kind = "throw"
    /\ handler[1].value = NoAccessTokenMessage

(* C28: when a lookup returns more than one record the workflow does not    *)
(* fail on that account and uses the first record in the response's order:  *)
(* the userId in the relation lookup is the first principal record's Id and *)
(* the id in the DELETE is the first relation record's Id, however many     *)
(* records follow.                                                          *)
C28_FirstRecord ==
    \A i \in Invocations :
        LET rs == ServiceResponses(i)
            cs == ServiceCalls(i)
        IN  /\ (/\ pc[i] # "awaitUserJson"
                /\ Len(rs) >= 1 /\ Found(rs[1]) /\ Len(rs[1].body.records) > 1)
               => (/\ Len(cs) >= 2
                   /\ userId[i] = rs[1].body.records[1].Id
                   /\ Includes(cs[2].req.url,
                               <<"SELECT+Id+FROM+PermissionSetAssignment+WHERE+AssigneeId=", "'">>
                               \o Interpolate(rs[1].body.records[1].Id)
                               \o <<"'", "+AND+PermissionSetId=">>))
            /\ (/\ pc[i] # "awaitAssignmentJson"
                /\ Len(rs) >= 2 /\ Found(rs[2]) /\ Len(rs[2].body.records) > 1)
               => (/\ Len(cs) = 3
                   /\ cs[3].req.method = "DELETE"
                   /\ assignmentId[i] = rs[2].body.records[1].Id
                   /\ EndsWith(cs[3].req.url,
                               <<"/services/data/v61.0/sobjects/PermissionSetAssignment/">>
                               \o Interpolate(rs[2].body.records[1].Id)))

\* C28 witness: both lookups returned two records with different ids and the
\* DELETE of the first relation record is in flight
C28_Witness ==
    /\ pc[1] = "awaitDelete"
    /\ Len(ServiceResponses(1)[1].body.records) = 2
    /\ Len(ServiceResponses(1)[2].body.records) = 2
    /\ ServiceResponses(1)[1].body.records[1].Id # ServiceResponses(1)[1].body.records[2].Id
    /\ ServiceResponses(1)[2].body.records[1].Id # ServiceResponses(1)[2].body.records[2].Id
    /\ assignmentId[1] = ServiceResponses(1)[2].body.records[1].Id

(* C29: termination.  Provided every call is answered, every invocation     *)
(* that has started eventually reaches a terminal state, which is either    *)
(* Done with a success result or Failed with an error, and stays there:     *)
(* nothing of the invocation changes afterwards and no further call is      *)
(* issued; there is no loop and no retry, so an invocation issues at most   *)
(* the token request and the three calls.                                   *)
C29_Terminates ==
    /\ \A i \in Invocations : (pc[i] = "start") ~> (pc[i] \in Terminated)
    /\ [](\A i \in Invocations :
            /\ pc[i] \in {"idle", "start", "awaitToken", "awaitTokenJson",
                          "awaitTokenText", "awaitAuth", "awaitUser", "awaitUserJson",
                          "awaitAssignment", "awaitAssignmentJson", "awaitDelete",
                          "done", "failed"}
            /\ pc[i] = "done" <=> result[i].status = "success"
            /\ pc[i] = "failed" <=> error[i] # Undefined
            /\ Len(CallsOf(i)) <= 4)
    /\ [][\A i \in Invocations :
            pc[i] \in Terminated
            => (/\ pc'[i] = pc[i]
                /\ result'[i] = result[i]
                /\ error'[i] = error[i]
                /\ CallsOf(i)' = CallsOf(i))]_vars

\* C29 witness: an invocation has ended in Failed after its token request and
\* its three calls were all answered
C29_Witness ==
    /\ pc[1] = "failed"
    /\ Len(CallsOf(1)) = 4
    /\ Len(responses[1]) = 4
    /\ result[1].status = "none"

\* what invocation i holds: its position, its constants, its outcome and the
\* responses it received
Locals(i) ==
    <<pc[i], baseUrl[i], authHeader[i], userId[i], assignmentId[i], result[i],
      error[i], responses[i]>>

\* the result of invocation i as its own params, context and responses give it
OwnResult(i) ==
    LET rs == ServiceResponses(i)
        removed == Len(rs) = 3
        a == SuppliedAddress(i)
    IN  [status |-> "success",
         username |-> params[i].username,
         userId |-> rs[1].body.records[1].Id,
         permissionSetId |-> params[i].permissionSetId,
         assignmentId |-> IF removed THEN rs[2].body.records[1].Id ELSE Null,
         removed |-> removed,
         address |-> IF a[Len(a)] = "/" THEN SubSeq(a, 1, Len(a) - 1) ELSE a]

(* C30: invocations share no local state.  Under any interleaving of two    *)
(* invocations the result of each is the one its own params, its own        *)
(* context and the responses to its own calls give, and so is its error;    *)
(* and a step of one invocation changes nothing the other holds.            *)
C30_NoSharedState ==
    /\ [](\A i \in Invocations :
            /\ pc[i] = "done" => result[i] = OwnResult(i)
            /\ pc[i] = "failed" => error[i] = RaisedError(i))
    /\ [][\A i \in Invocations, j \in Invocations :
            (i # j /\ Locals(i)' # Locals(i)) => Locals(j)' = Locals(j)]_vars

\* C30 witness: two invocations for different permission sets were in flight
\* together and each ended with the removal of its own assignment
C30_Witness ==
    /\ pc[1] = "done" /\ pc[2] = "done"
    /\ startedAfter[1] = {} /\ startedAfter[2] = {}
    /\ params[1].permissionSetId # params[2].permissionSetId
    /\ result[1].removed /\ result[2].removed
    /\ result[1].assignmentId # result[2].assignmentId

----------------------------------------------------------------------------
\* the assignment records the remote service holds for the user and the permission
\* set an invocation names
HeldFor(i) ==
    {a \in remote.assignments :
        /\ a.PermissionSetId = params[i].permissionSetId
        /\ \E u \in Users : u.Username = params[i].username /\ u.Id = a.AssigneeId}

(* C31: two invocations for the same username and permission set, interleaved  *)
(* in any way against a remote service that answers a DELETE of an already    *)
(* deleted record with a failure: at most one of them reports removed = true,  *)
(* and once both have terminated, with their credentials resolved and their    *)
(* requests answered from the records, the assignment is absent.               *)
C31_AtMostOneRemoval ==
    \A i \in Invocations : \A j \in Invocations \ {i} :
        (/\ params[j].username = params[i].username
         /\ params[j].permissionSetId = params[i].permissionSetId)
        => /\ ~(/\ pc[i] = "done" /\ result[i].removed
                /\ pc[j] = "done" /\ result[j].removed)
           /\ (/\ pc[i] \in Terminated /\ pc[j] \in Terminated
               /\ authHeader[i] # Undefined /\ authHeader[j] # Undefined
               /\ AnsweredFromRecords(i) /\ AnsweredFromRecords(j))
              => HeldFor(i) = {}

\* C31 witness: both invocations found the record and sent their DELETE; the first
\* removed it, the second was answered 404 and failed
C31_Witness ==
    /\ params[2].username = params[1].username
    /\ params[2].permissionSetId = params[1].permissionSetId
    /\ startedAfter[1] = {} /\ startedAfter[2] = {}
    /\ pc[1] = "done" /\ result[1].removed
    /\ pc[2] = "failed"
    /\ Len(ServiceCalls(2)) = 3
    /\ ServiceResponses(2)[3].status = 404
    /\ HeldFor(1) = {}

----------------------------------------------------------------------------
\* the DELETE requests an invocation has issued
DeleteCalls(i) == SelectSeq(ServiceCalls(i), LAMBDA c : c.req.method = "DELETE")

(* C32: whatever the remote service answers, an invocation issues at most     *)
(* three calls to it, at most one of them a DELETE, and an invocation that    *)
(* has returned or thrown issues no further call.                             *)
C32_BoundedCalls ==
    /\ [](\A i \in Invocations :
            /\ Len(ServiceCalls(i)) <= 3
            /\ Len(DeleteCalls(i)) <= 1)
    /\ [][\A i \in Invocations :
            pc[i] \in Terminated => CallsOf(i)' = CallsOf(i)]_vars

\* C32 witness: the user query, the assignment query and the DELETE were issued,
\* the DELETE failed, and the error handler ran after invoke had thrown
C32_Witness ==
    /\ pc[1] = "failed"
    /\ Len(ServiceCalls(1)) = 3
    /\ Len(DeleteCalls(1)) = 1
    /\ handler[1].kind = "throw"

----------------------------------------------------------------------------
(* C33: a DELETE names the Id of the first record that the relation lookup of  *)
(* the same invocation returned, that lookup asked for the userId its own      *)
(* principal lookup returned and for the caller's permissionSetId, and every   *)
(* record that leaves the remote service is the record of the user and the     *)
(* permission set of the invocation whose DELETE was answered.                 *)
C33_DeletesWhatItLookedUp ==
    /\ [](\A i \in Invocations :
            LET rs == ServiceResponses(i)
                cs == ServiceCalls(i)
            IN  /\ Len(cs) >= 2
                   => (/\ Found(rs[1])
                       /\ userId[i] = FirstId(rs[1].body)
                       /\ cs[2].req.method = "GET"
                       /\ EndsWith(cs[2].req.url,
                            <<"SELECT+Id+FROM+PermissionSetAssignment+WHERE+AssigneeId=", "'">>
                            \o Interpolate(FirstId(rs[1].body))
                            \o <<"'", "+AND+PermissionSetId=", "'">>
                            \o Interpolate(params[i].permissionSetId)
                            \o <<"'">>))
                /\ \A k \in 1..Len(cs) :
                     cs[k].req.method = "DELETE"
                     => (/\ k = 3
                         /\ Found(rs[2])
                         /\ assignmentId[i] = FirstId(rs[2].body)
                         /\ cs[3].req.url = baseUrl[i]
                              \o <<"/services/data/v61.0/sobjects/PermissionSetAssignment/">>
                              \o Interpolate(FirstId(rs[2].body))))
    /\ [][\A a \in remote.assignments \ remote'.assignments :
            \E i \in Invocations :
                /\ pc[i] = "awaitDelete" /\ pc'[i] = "done"
                /\ a.Id = assignmentId[i]
                /\ a.AssigneeId = userId[i]
                /\ a.PermissionSetId = params[i].permissionSetId]_vars

\* C33 witness: two invocations for two permission sets of one user have each
\* looked up and deleted their own record
C33_Witness ==
    /\ params[1].permissionSetId # params[2].permissionSetId
    /\ pc[1] = "done" /\ result[1].removed
    /\ pc[2] = "done" /\ result[2].removed
    /\ assignmentId[1] # assignmentId[2]
    /\ startedAfter[1] = {} /\ startedAfter[2] = {}
    /\ remote.assignments = {}

----------------------------------------------------------------------------
(* C34: the configuration failures are ordered.  When no address is supplied  *)
(* and credential resolution would fail as well, invoke fails with the        *)
(* address error and has made no call; a token request is issued only once    *)
(* the address is resolved, and it precedes every call to the remote service. *)
C34_AddressFirst ==
    \A i \in Invocations :
        /\ (/\ pc[i] \notin {"idle", "start"}
            /\ ~AddressSupplied(i)
            /\ GetAuthorizationHeader(context[i]).kind = "throw")
           => (/\ pc[i] = "failed"
               /\ error[i] = NoURLMessage
               /\ CallsOf(i) = <<>>)
        /\ TokenCalls(i) # <<>>
           => (/\ AddressSupplied(i)
               /\ baseUrl[i] # Undefined
               /\ IsTokenCall(CallsOf(i)[1]))
        /\ (ClientCredentialsSelected(context[i]) /\ ServiceCalls(i) # <<>>)
           => (/\ IsTokenCall(CallsOf(i)[1])
               /\ TokenAnswered(i) /\ Ok(responses[i][1])
               /\ authHeader[i] # Undefined)

\* C34 witness: neither an address nor a complete credential variant is
\* configured, and invoke has failed with the address error
C34_Witness ==
    /\ pc[1] = "failed"
    /\ ~AddressSupplied(1)
    /\ NoVariantComplete(context[1])
    /\ error[1] = NoURLMessage
    /\ handler[1].kind = "throw"
    /\ handler[1].value = NoURLMessage

----------------------------------------------------------------------------
(* The classifying error handler of src/dist/index.js, applied to an error   *)
(* message whatever raised it.                                               *)

\* the most status codes an error message carries
MaxCodes == 2

\* the status codes an error message may carry
MessageCodes == {400, 401, 403, 404, 429, 502, 503, 504}

\* the texts the messages of invoke open with; a status and a status text, or
\* the username, follow
MessagePrefixes ==
    {<<"Failed to query user: ">>, <<"User not found: ">>,
     <<"Failed to query permission set assignment: ">>,
     <<"Failed to delete permission set assignment: ">>}

\* the messages of invoke that are a fixed text
FixedMessages ==
    {<<"username is required">>, <<"permissionSetId is required">>,
     <<"SALESFORCE_INSTANCE_URL environment variable is required">>,
     <<"SALESFORCE_ACCESS_TOKEN secret is required">>}

RECURSIVE CodesText(_)
\* the codes of a sequence as a message prints them, a space between two of them
CodesText(cs) ==
    IF Len(cs) = 0 THEN <<>>
    ELSE IF Len(cs) = 1 THEN Digits(cs[1])
    ELSE Digits(cs[1]) \o <<" ">> \o CodesText(Tail(cs))

\* the error messages the handler is given
ErrorMessages ==
    FixedMessages
    \cup {p \o CodesText(cs) :
            p \in MessagePrefixes,
            cs \in UNION {[1..n -> MessageCodes] : n \in 1..MaxCodes}}

\* the value the handler asks for a retry with
RetryRequested == <<"retry_requested">>

\* the handler awaits its five-second timer
Sleep(v) == [kind |-> "sleep", value |-> v]

\* a faulty variant of ClassifyingErrorHandlerOutcome: the fatal codes are looked
\* for first
ClassifyingErrorHandlerOutcomeFatalFirst(message) ==
    IF HasFatalCode(message) THEN Throw(message)
    ELSE IF HasRetryableCode(message) THEN Sleep(RetryRequested)
    ELSE Return(RetryRequested)

\* the error handler of src/dist/index.js up to its await, its return or its throw
ClassifyingErrorHandlerOutcome(message) ==
    IF HasRetryableCode(message) THEN Sleep(RetryRequested)
    ELSE IF HasFatalCode(message) THEN Throw(message)
    ELSE Return(RetryRequested)

\* the framework hands an error to the classifying handler
ClassifyingErrorHandler(i) ==
    /\ error[i] # Undefined
    /\ handler[i].kind = "none"
    /\ handler' = [handler EXCEPT ![i] = ClassifyingErrorHandlerOutcome(error[i])]
    /\ UNCHANGED <<pc, params, context, baseUrl, authHeader, userId, assignmentId,
                   result, error, calls, responses, remote, startedAfter, halted>>

\* the timer of the handler fires and the handler returns
RetryTimer(i) ==
    /\ handler[i].kind = "sleep"
    /\ handler' = [handler EXCEPT ![i] = Return(handler[i].value)]
    /\ UNCHANGED <<pc, params, context, baseUrl, authHeader, userId, assignmentId,
                   result, error, calls, responses, remote, startedAfter, halted>>

InitClassify ==
    \E m \in ErrorMessages :
        /\ pc = [i \in Invocations |-> "idle"]
        /\ params = [i \in Invocations |->
                        [username |-> <<"a", "@", "b">>,
                         permissionSetId |-> <<"P", "1">>,
                         address |-> Undefined]]
        /\ context = [i \in Invocations |->
                        [secrets |-> NoSecrets, environment |-> NoEnvironment]]
        /\ baseUrl = [i \in Invocations |-> Undefined]
        /\ authHeader = [i \in Invocations |-> Undefined]
        /\ userId = [i \in Invocations |-> Undefined]
        /\ assignmentId = [i \in Invocations |-> Undefined]
        /\ result = [i \in Invocations |-> NoResult]
        /\ error = [i \in Invocations |-> IF i = 1 THEN m ELSE Undefined]
        /\ calls = <<>>
        /\ responses = [i \in Invocations |-> <<>>]
        /\ remote = [faithful |-> FALSE, assignments |-> Assignments]
        /\ startedAfter = [i \in Invocations |-> {}]
        /\ handler = [i \in Invocations |-> [kind |-> "none", value |-> Undefined]]
        /\ halted = [i \in Invocations |-> NoHalt]

NextClassify ==
    \E i \in Invocations :
        \/ ClassifyingErrorHandler(i)
        \/ RetryTimer(i)

SpecClassify == InitClassify /\ [][NextClassify]_vars

(* C35: in the classifying error handler the retryable check comes first: an  *)
(* error message that contains a retryable code (429, 502, 503 or 504) and a  *)
(* fatal code (401 or 403) is answered with retry_requested, after the wait,  *)
(* and is not thrown again.                                                   *)
C35_RetryableFirst ==
    \A i \in Invocations :
        (/\ handler[i].kind # "none"
         /\ \E r \in {429, 502, 503, 504} : Includes(error[i], Digits(r))
         /\ \E f \in {401, 403} : Includes(error[i], Digits(f)))
        => \/ handler[i].kind = "sleep"
           \/ handler[i].kind = "return" /\ handler[i].value = RetryRequested

\* C35 witness: a message with 401 before 503 in it was answered with
\* retry_requested
C35_Witness ==
    /\ error[1] = <<"Failed to query user: ", "4", "0", "1", " ", "5", "0", "3">>
    /\ handler[1] = Return(RetryRequested)

====
